---- MODULE Spec2Model ----
(***************************************************************************)
(* SCORM 2004 sequencing engine (SCORMSequencingEngine,                    *)
(* src/lib/scorm-sequencing-correct.ts) as a state machine.                *)
(*                                                                         *)
(* The engine is built once from a manifest; afterwards its state is the   *)
(* current-activity pointer, the endSession flag and every activity's      *)
(* ActivityStateInformation.  Each public call (startSequence,             *)
(* processNavigationRequest) is one action that runs the whole Overall     *)
(* Sequencing Process.                                                     *)
(*                                                                         *)
(* Representation:                                                         *)
(*  - identifiers are strings; the JavaScript null / undefined activity is  *)
(*    the string null, a missing or empty targetId is the empty string;    *)
(*  - the manifest keeps its items in document order, each with the index  *)
(*    of the item that encloses it (0 = directly under the organization);  *)
(*    item.item is SubItems;                                               *)
(*  - optional flags are stored as the value the code's test gives them    *)
(*    when they are absent (choice, flow: TRUE; forwardOnly: FALSE;        *)
(*    isvisible: TRUE), an absent rule list as the empty list, an absent   *)
(*    sequencing element as NoSequencing;                                  *)
(*  - unbounded recursion of flowSubprocess (a JavaScript stack overflow)  *)
(*    is the result RangeError.                                            *)
(***************************************************************************)
EXTENDS Integers, Sequences, FiniteSets, TLC

\* Largest number of items in a generated manifest one of whose items carries a
\* profile (a missing resource, a hidden item or a sequencing definition).
MaxItems == 3

\* Largest number of items in a generated manifest of plain items.
MaxPlainItems == 4

\* Largest number of items in a generated manifest one of whose items has
\* limit conditions.
MaxTimedItems == 2

null == "null"
RangeError == "RangeError"
PRIMARY == "_primary_"

Range(s) == { s[i] : i \in DOMAIN s }

(***************************************************************************)
(* Manifest model (types/scorm.ts)                                         *)
(***************************************************************************)

SCORMControlMode(choice, flow, forwardOnly) ==
  [choice |-> choice, flow |-> flow, forwardOnly |-> forwardOnly]

\* referenceObjective "" is an absent reference; measureThreshold is always given.
SCORMRuleCondition(condition, operator) ==
  [condition |-> condition, operator |-> operator, measureThreshold |-> 0,
   referenceObjective |-> ""]

SCORMRule(conditionCombination, ruleConditions, action) ==
  [conditionCombination |-> conditionCombination,
   ruleConditions |-> ruleConditions, action |-> action]

SCORMSequencingRules(pre, exit, post) ==
  [preConditionRule |-> pre, exitConditionRule |-> exit, postConditionRule |-> post]

\* rollupRule = << >> with defined = FALSE is an absent rollupRules element.
SCORMRollupRules(defined, rollupRule) ==
  [defined |-> defined, rollupRule |-> rollupRule]

\* attemptLimit 0 and the string "" are absent limits.
SCORMLimitConditions(attemptLimit, durationLimit, beginTimeLimit, endTimeLimit) ==
  [attemptLimit |-> attemptLimit, activityAbsoluteDurationLimit |-> durationLimit,
   beginTimeLimit |-> beginTimeLimit, endTimeLimit |-> endTimeLimit]

SCORMSequencing(controlMode, sequencingRules, rollupRules, limitConditions) ==
  [controlMode |-> controlMode, sequencingRules |-> sequencingRules,
   rollupRules |-> rollupRules, limitConditions |-> limitConditions]

NoControlMode == SCORMControlMode(TRUE, TRUE, FALSE)
NoSequencingRules == SCORMSequencingRules(<< >>, << >>, << >>)
NoRollupRules == SCORMRollupRules(FALSE, << >>)
NoLimitConditions == SCORMLimitConditions(0, "", "", "")

\* item.sequencing || null
NoSequencing ==
  SCORMSequencing(NoControlMode, NoSequencingRules, NoRollupRules, NoLimitConditions)

SCORMItem(identifier, identifierref, isvisible, sequencing) ==
  [identifier |-> identifier, identifierref |-> identifierref,
   isvisible |-> isvisible, sequencing |-> sequencing]

\* The `{} as SCORMItem` every activity starts with (and the root keeps).
EmptyItem == SCORMItem("", "", TRUE, NoSequencing)


(***************************************************************************)
(* Generated manifests: one organization "org" holding items in every      *)
(* nesting, all of them plain (bound to a resource, visible, no sequencing *)
(* element) except at most one, which carries one of the Profiles.         *)
(***************************************************************************)

Id(i) == "i" \o ToString(i)

Rule(combination, condition, operator, action) ==
  SCORMRule(combination, << SCORMRuleCondition(condition, operator) >>, action)

Profile(identifierref, isvisible, sequencing) ==
  [identifierref |-> identifierref, isvisible |-> isvisible, sequencing |-> sequencing]

WithRules(pre, exit, post) ==
  SCORMSequencing(NoControlMode, SCORMSequencingRules(pre, exit, post),
                  NoRollupRules, NoLimitConditions)

WithControlMode(choice, flow, forwardOnly) ==
  SCORMSequencing(SCORMControlMode(choice, flow, forwardOnly), NoSequencingRules,
                  NoRollupRules, NoLimitConditions)

\* A precondition rule together with limit conditions.
WithLimits(pre, durationLimit, beginTimeLimit, endTimeLimit) ==
  SCORMSequencing(NoControlMode, SCORMSequencingRules(pre, << >>, << >>), NoRollupRules,
                  SCORMLimitConditions(0, durationLimit, beginTimeLimit, endTimeLimit))

TimeLimit == "1970-01-01T00:00:00.002Z"

Plain == Profile("res", TRUE, NoSequencing)

Profiles ==
  { Plain,
    \* no identifierref / isvisible="false"
    Profile("", TRUE, NoSequencing),
    Profile("res", FALSE, NoSequencing),
    \* precondition rules
    Profile("res", TRUE, WithRules(<< Rule("all", "satisfied", "not", "skip") >>, << >>, << >>)),
    Profile("res", TRUE, WithRules(<< Rule("all", "satisfied", "noOp", "skip") >>, << >>, << >>)),
    Profile("res", TRUE, WithRules(<< Rule("any", "completed", "not", "retry") >>, << >>, << >>)),
    \* exit and post condition rules
    Profile("res", TRUE, WithRules(<< >>, << Rule("all", "completed", "not", "skip") >>, << >>)),
    Profile("res", TRUE, WithRules(<< >>, << Rule("any", "attempted", "not", "exitAll") >>, << >>)),
    Profile("res", TRUE, WithRules(<< >>, << >>, << Rule("all", "activityProgressKnown", "not", "retryAll") >>)),
    \* deliverable until its own exit rule has marked it completed
    Profile("res", TRUE, WithRules(<< Rule("all", "completed", "not", "disabled") >>,
                                   << Rule("all", "completed", "not", "skip") >>, << >>)),
    \* completed by its exit rule on termination, reset by retry on delivery
    Profile("res", TRUE, WithRules(<< Rule("any", "attempted", "not", "retry") >>,
                                   << Rule("all", "completed", "not", "skip") >>, << >>)),
    \* control modes
    Profile("res", TRUE, WithControlMode(FALSE, TRUE, FALSE)),
    Profile("res", TRUE, WithControlMode(TRUE, FALSE, FALSE)),
    Profile("res", TRUE, WithControlMode(TRUE, TRUE, TRUE)) }

\* Limit conditions, read by the condition of a precondition rule.
TimedProfiles ==
  { Profile("res", TRUE, WithLimits(<< Rule("all", "outsideAvailableTimeRange", "not", "disabled") >>,
                                    "", TimeLimit, "")),
    Profile("res", TRUE, WithLimits(<< Rule("all", "outsideAvailableTimeRange", "not", "disabled") >>,
                                    "", "", TimeLimit)),
    Profile("res", TRUE, WithLimits(<< Rule("all", "outsideAvailableTimeRange", "not", "disabled") >>,
                                    "", "tomorrow", "")),
    Profile("res", TRUE, WithLimits(<< Rule("all", "outsideAvailableTimeRange", "not", "disabled") >>,
                                    "", "", "")),
    Profile("res", TRUE, WithLimits(<< Rule("all", "timeLimitExceeded", "noOp", "disabled") >>,
                                    "PT1H", TimeLimit, "")) }

RECURSIVE EnclosingChain(_, _)
EnclosingChain(enclosing, j) ==
  IF j = 0 THEN {0} ELSE {j} \cup EnclosingChain(enclosing, enclosing[j])

\* The nestings of n items listed in document order: an item is enclosed by the
\* item before it, by one of that item's enclosing items, or by the organization.
Shapes(n) ==
  { p \in [1..n -> 0..(n - 1)] :
      /\ \A i \in 1..n : p[i] < i
      /\ \A i \in 2..n : p[i] \in EnclosingChain(p, i - 1) }

\* item.item of item i (i = 0: organization.items), as item indices.
SubItems(enclosing, i) ==
  SelectSeq([j \in DOMAIN enclosing |-> j], LAMBDA j : enclosing[j] = i)

Manifest(n, p, k, prof) ==
  [organizations |-> << [identifier |-> "org", items |-> SubItems(p, 0)] >>,
   enclosing |-> p,
   item |-> [i \in 1..n |->
               IF i = k
                 THEN SCORMItem(Id(i), prof.identifierref, prof.isvisible, prof.sequencing)
                 ELSE SCORMItem(Id(i), Plain.identifierref, Plain.isvisible, Plain.sequencing)]]

PlainManifests ==
  UNION { { Manifest(n, p, 0, Plain) : p \in Shapes(n) } : n \in 1..MaxPlainItems }

ProfiledManifests ==
  UNION { { Manifest(n, p, k, prof) : p \in Shapes(n), k \in 1..n, prof \in Profiles }
          : n \in 1..MaxItems }

TimedManifests ==
  UNION { { Manifest(n, p, k, prof) : p \in Shapes(n), k \in 1..n, prof \in TimedProfiles }
          : n \in 1..MaxTimedItems }

\* A manifest whose last top-level item is put in a second organization.
SecondOrganization(m) ==
  LET items == m.organizations[1].items
  IN [m EXCEPT !.organizations =
        << [identifier |-> "org", items |-> SubSeq(items, 1, Len(items) - 1)],
           [identifier |-> "org2", items |-> << items[Len(items)] >>] >>]

TwoOrganizationManifests ==
  UNION { { SecondOrganization(Manifest(n, p, 0, Plain)) :
              p \in { q \in Shapes(n) : Len(SubItems(q, 0)) >= 2 } } : n \in 2..MaxItems }

\* A manifest without organizations.
EmptyManifest == [organizations |-> << >>, enclosing |-> << >>, item |-> << >>]

Manifests ==
  PlainManifests \cup ProfiledManifests \cup TimedManifests
    \cup TwoOrganizationManifests \cup {EmptyManifest}

(***************************************************************************)
(* Activity tree (buildActivityTree, lines 87-146)                         *)
(***************************************************************************)

createActivity(identifier, parent, isLeaf, depth) ==
  [identifier |-> identifier,
   item |-> EmptyItem,
   parent |-> parent,
   children |-> << >>,
   isLeaf |-> isLeaf,
   isRoot |-> (parent = null),
   depth |-> depth,
   sequencingDefinition |-> NoSequencing]

initializeActivityState ==
  [activityIsActive |-> FALSE,
   activityIsSuspended |-> FALSE,
   activityProgressStatus |-> FALSE,
   activityCompletionStatus |-> FALSE,
   activityAbsoluteDuration |-> 0,
   attemptProgressStatus |-> FALSE,
   objectives |-> {}]

\* The activities created for `items` and for everything nested in them.
RECURSIVE buildActivityChildren(_, _, _, _)
buildActivityChildren(m, items, parent, depth) ==
  UNION { LET item == m.item[i]
              sub == SubItems(m.enclosing, i)
              activity == createActivity(item.identifier, parent, Len(sub) = 0, depth)
          IN { [activity EXCEPT !.item = item,
                                !.sequencingDefinition = item.sequencing,
                                !.children = [c \in DOMAIN sub |-> m.item[sub[c]].identifier]] }
             \cup buildActivityChildren(m, sub, item.identifier, depth + 1)
        : i \in Range(items) }

\* buildActivityTree that hangs the items of every organization under the root.
buildActivityTree_EveryOrganization(m) ==
  LET org == m.organizations[1]
      items == SubItems(m.enclosing, 0)
      rootActivity == createActivity(org.identifier, null, TRUE, 0)
      root == [rootActivity EXCEPT
                 !.children = [c \in DOMAIN items |-> m.item[items[c]].identifier]]
      all == {root} \cup buildActivityChildren(m, items, org.identifier, 1)
  IN [id \in { a.identifier : a \in all } |-> CHOOSE a \in all : a.identifier = id]

\* The tree as an arena: identifier -> activity, children as identifiers.
\* Called with at least one organization: see SCORMSequencingEngine.
buildActivityTree(m) ==
  LET org == m.organizations[1]
      rootActivity == createActivity(org.identifier, null, TRUE, 0)
      root == [rootActivity EXCEPT
                 !.children = [c \in DOMAIN org.items |-> m.item[org.items[c]].identifier]]
      all == {root} \cup buildActivityChildren(m, org.items, org.identifier, 1)
  IN [id \in { a.identifier : a \in all } |-> CHOOSE a \in all : a.identifier = id]


(***************************************************************************)
(* Engine state                                                            *)
(***************************************************************************)

VARIABLES
  manifest,                  \* this.manifest
  thrown,                    \* the error the constructor threw, NoError if none
  activityTree,              \* session.activityTree: identifier -> Activity
  activityStateInformation,  \* identifier -> ActivityStateInformation
  currentActivity,           \* session.currentActivity (identifier or null)
  endSession,                \* this.endSession
  lastRequest,               \* token of the latest call ("" before the first)
  lastTarget,                \* targetId of the latest call
  lastFrom,                  \* getCurrentActivity() when the latest call was made
  lastResult,                \* what the latest call returned, or RangeError
  url,                       \* the argument given to SCORMParser's URL helpers
  parserCall,                \* the helper called last ("" before the first)
  parserResult,              \* what it returned
  givenRule,                 \* the SCORMRule given to the rule evaluation
  ruleCall,                  \* the evaluation method called last ("" before the first)
  ruleValue,                 \* what it returned
  api,                       \* the fields of a SCORMAPIImplementation
  apiCall,                   \* its latest call: method, arguments and result
  written,                   \* element -> the value last stored under it
  handler,                   \* the fields of a SCORMCrossOriginHandler
  timers,                    \* request ids whose setTimeout callback has not run
  promises,                  \* request id -> the values its resolve was called with
  lastEvent,                 \* the latest step of the handler
  walkCall,                  \* the latest tree-walk call: method, activity, result
  visited                    \* the activities an iterated walk has returned

engineVars == << manifest, thrown, activityTree, activityStateInformation,
                 currentActivity, endSession, lastRequest, lastTarget, lastFrom,
                 lastResult >>

parserVars == << url, parserCall, parserResult >>

ruleVars == << givenRule, ruleCall, ruleValue >>

apiVars == << api, apiCall, written >>

handlerVars == << handler, timers, promises, lastEvent >>

walkVars == << walkCall, visited >>

\* The objects a specification does not exercise, as constructed.
restVars == << apiVars, handlerVars, walkVars >>

NoApi ==
  /\ api = [version |-> "1.2", dataModel |-> << >>, initialized |-> FALSE, errorCode |-> "0"]
  /\ apiCall = [method |-> "", element |-> << >>, value |-> "", result |-> ""]
  /\ written = << >>

NoHandler ==
  /\ handler = [requestId |-> 0, pendingRequests |-> {}, messageHandler |-> FALSE]
  /\ timers = {}
  /\ promises = << >>
  /\ lastEvent = [type |-> "", requestId |-> << >>, result |-> ""]

NoWalk ==
  /\ walkCall = [method |-> "", activity |-> null, result |-> null]
  /\ visited = << >>

vars == << manifest, thrown, activityTree, activityStateInformation, currentActivity,
           endSession, lastRequest, lastTarget, lastFrom, lastResult,
           url, parserCall, parserResult, givenRule, ruleCall, ruleValue,
           api, apiCall, written, handler, timers, promises, lastEvent, walkCall, visited >>

Activities == DOMAIN activityTree

(***************************************************************************)
(* Objectives (lines 824-866).  The objectives map is a set of entries,    *)
(* at most one per id.                                                     *)
(***************************************************************************)

ObjectiveId(objectiveId) == IF objectiveId = "" THEN PRIMARY ELSE objectiveId

\* The entry of the map for objectiveId: a set with one element, or none.
getObjective(asi, activity, objectiveId) ==
  { o \in asi[activity].objectives : o.id = ObjectiveId(objectiveId) }

getObjectiveSatisfiedStatus(asi, activity, objectiveId) ==
  \E o \in getObjective(asi, activity, objectiveId) : o.objectiveSatisfiedStatus

getObjectiveProgressStatus(asi, activity, objectiveId) ==
  \E o \in getObjective(asi, activity, objectiveId) : o.objectiveProgressStatus

\* The measure, or the empty set for undefined.
getObjectiveMeasure(asi, activity, objectiveId) ==
  { o.objectiveNormalizedMeasure :
      o \in { q \in getObjective(asi, activity, objectiveId) : q.objectiveMeasureStatus } }

getOrCreateObjective(asi, activity, objectiveId) ==
  IF getObjective(asi, activity, objectiveId) # {}
    THEN CHOOSE o \in getObjective(asi, activity, objectiveId) : TRUE
    ELSE [id |-> ObjectiveId(objectiveId),
          objectiveProgressStatus |-> FALSE,
          objectiveSatisfiedStatus |-> FALSE,
          objectiveMeasureStatus |-> FALSE,
          objectiveNormalizedMeasure |-> 0]

setObjectiveSatisfiedStatus(asi, activity, satisfied, objectiveId) ==
  LET objective == getOrCreateObjective(asi, activity, objectiveId)
      updated == [objective EXCEPT !.objectiveProgressStatus = TRUE,
                                   !.objectiveSatisfiedStatus = satisfied]
  IN [asi EXCEPT ![activity].objectives =
        (@ \ getObjective(asi, activity, objectiveId)) \cup {updated}]

(***************************************************************************)
(* Limit conditions (lines 868-925)                                        *)
(***************************************************************************)

getAttemptCount(activity) == 0

parseTimeLimit(timeLimit) == 0

isAttemptLimitExceeded(activity) ==
  LET attemptLimit == activityTree[activity].sequencingDefinition.limitConditions.attemptLimit
  IN IF attemptLimit = 0 THEN FALSE
     ELSE getAttemptCount(activity) >= attemptLimit

isTimeLimitExceeded(asi, activity) ==
  LET timeLimit ==
        activityTree[activity].sequencingDefinition.limitConditions.activityAbsoluteDurationLimit
  IN IF timeLimit = "" THEN FALSE
     ELSE asi[activity].activityAbsoluteDuration >= parseTimeLimit(timeLimit)

\* new Date(value): milliseconds since the epoch (positive), NaN for a string
\* that is not a date.
NaN == -1
Date(value) == IF value = "1970-01-01T00:00:00.002Z" THEN 2 ELSE NaN

\* a < b on dates: false when either is an invalid date.
DateLess(a, b) == a # NaN /\ b # NaN /\ a < b

\* now is the reading of new Date() in this call.
isOutsideAvailableTimeRange(activity, now) ==
  LET beginTime == activityTree[activity].sequencingDefinition.limitConditions.beginTimeLimit
      endTime == activityTree[activity].sequencingDefinition.limitConditions.endTimeLimit
  IN IF beginTime = "" /\ endTime = "" THEN FALSE
     ELSE IF beginTime # "" /\ DateLess(now, Date(beginTime)) THEN TRUE
     ELSE IF endTime # "" /\ DateLess(Date(endTime), now) THEN TRUE
     ELSE FALSE

(***************************************************************************)
(* Sequencing rule evaluation (lines 541-635)                              *)
(***************************************************************************)

\* evaluateRuleCondition whose timeLimitExceeded compares the clock with the
\* begin and end time limits.
evaluateRuleCondition_DurationReadsClock(condition, activity, asi, now) ==
  LET state == asi[activity]
      c == condition.condition
      ref == condition.referenceObjective
      result ==
        CASE c = "satisfied" -> getObjectiveSatisfiedStatus(asi, activity, ref)
          [] c = "objectiveStatusKnown" -> getObjectiveProgressStatus(asi, activity, ref)
          [] c = "objectiveSatisfied" -> getObjectiveSatisfiedStatus(asi, activity, ref)
          [] c = "objectiveMeasureKnown" -> getObjectiveMeasure(asi, activity, ref) # {}
          [] c = "objectiveMeasureGreaterThan" ->
               \E measureGT \in getObjectiveMeasure(asi, activity, ref) :
                  measureGT > condition.measureThreshold
          [] c = "objectiveMeasureLessThan" ->
               \E measureLT \in getObjectiveMeasure(asi, activity, ref) :
                  measureLT < condition.measureThreshold
          [] c = "completed" ->
               state.activityProgressStatus /\ state.activityCompletionStatus
          [] c = "activityProgressKnown" -> state.activityProgressStatus
          [] c = "attempted" -> state.attemptProgressStatus
          [] c = "attemptLimitExceeded" -> isAttemptLimitExceeded(activity)
          [] c = "timeLimitExceeded" -> isOutsideAvailableTimeRange(activity, now)
          [] c = "outsideAvailableTimeRange" -> isOutsideAvailableTimeRange(activity, now)
          [] OTHER -> FALSE
  IN IF condition.operator = "not" THEN ~result ELSE result

evaluateRuleCondition(condition, activity, asi, now) ==
  LET state == asi[activity]
      c == condition.condition
      ref == condition.referenceObjective
      result ==
        CASE c = "satisfied" -> getObjectiveSatisfiedStatus(asi, activity, ref)
          [] c = "objectiveStatusKnown" -> getObjectiveProgressStatus(asi, activity, ref)
          [] c = "objectiveSatisfied" -> getObjectiveSatisfiedStatus(asi, activity, ref)
          [] c = "objectiveMeasureKnown" -> getObjectiveMeasure(asi, activity, ref) # {}
          [] c = "objectiveMeasureGreaterThan" ->
               \E measureGT \in getObjectiveMeasure(asi, activity, ref) :
                  measureGT > condition.measureThreshold
          [] c = "objectiveMeasureLessThan" ->
               \E measureLT \in getObjectiveMeasure(asi, activity, ref) :
                  measureLT < condition.measureThreshold
          [] c = "completed" ->
               state.activityProgressStatus /\ state.activityCompletionStatus
          [] c = "activityProgressKnown" -> state.activityProgressStatus
          [] c = "attempted" -> state.attemptProgressStatus
          [] c = "attemptLimitExceeded" -> isAttemptLimitExceeded(activity)
          [] c = "timeLimitExceeded" -> isTimeLimitExceeded(asi, activity)
          [] c = "outsideAvailableTimeRange" -> isOutsideAvailableTimeRange(activity, now)
          [] OTHER -> FALSE
  IN IF condition.operator = "not" THEN ~result ELSE result

\* evaluateSequencingRule where a rule without conditions fires under any
\* combination.
evaluateSequencingRule_EmptyListFires(rule, activity, asi, now) ==
  LET conditionResults ==
        [i \in DOMAIN rule.ruleConditions |->
           evaluateRuleCondition(rule.ruleConditions[i], activity, asi, now)]
  IN IF rule.conditionCombination = "all" \/ rule.ruleConditions = << >>
       THEN \A i \in DOMAIN conditionResults : conditionResults[i]
       ELSE \E i \in DOMAIN conditionResults : conditionResults[i]

evaluateSequencingRule(rule, activity, asi, now) ==
  LET conditionResults ==
        [i \in DOMAIN rule.ruleConditions |->
           evaluateRuleCondition(rule.ruleConditions[i], activity, asi, now)]
  IN IF rule.conditionCombination = "all"
       THEN \A i \in DOMAIN conditionResults : conditionResults[i]
       ELSE \E i \in DOMAIN conditionResults : conditionResults[i]

checkPreConditions(activity, asi, now) ==
  LET preConditionRule ==
        activityTree[activity].sequencingDefinition.sequencingRules.preConditionRule
  IN \A i \in DOMAIN preConditionRule :
        evaluateSequencingRule(preConditionRule[i], activity, asi, now)

\* isActivityDeliverable without the identifierref test.
isActivityDeliverable_NoRefTest(activity, asi, now) ==
  IF ~activityTree[activity].isLeaf THEN FALSE
  ELSE IF activityTree[activity].item.isvisible = FALSE THEN FALSE
  ELSE checkPreConditions(activity, asi, now)

isActivityDeliverable(activity, asi, now) ==
  IF ~activityTree[activity].isLeaf THEN FALSE
  ELSE IF activityTree[activity].item.identifierref = "" THEN FALSE
  ELSE IF activityTree[activity].item.isvisible = FALSE THEN FALSE
  ELSE checkPreConditions(activity, asi, now)


(***************************************************************************)
(* Rule actions and the rules check (lines 637-711, 927-940).              *)
(* e is the mutable part of the engine: [currentActivity, endSession, asi] *)
(***************************************************************************)

resetActivityState(asi, activity) ==
  [asi EXCEPT ![activity] = initializeActivityState]

\* resetActivityStateRecursive from the root reaches every activity.
resetAllActivityStates(asi) ==
  [a \in DOMAIN asi |-> initializeActivityState]

executeRuleAction(action, activity, e) ==
  CASE action = "skip" ->
         [e EXCEPT !.asi[activity].activityProgressStatus = TRUE,
                   !.asi[activity].activityCompletionStatus = TRUE]
    [] action = "exitAll" -> [e EXCEPT !.endSession = TRUE]
    [] action = "retry" -> [e EXCEPT !.asi = resetActivityState(e.asi, activity)]
    [] action = "retryAll" -> [e EXCEPT !.asi = resetAllActivityStates(e.asi)]
    [] OTHER -> e

\* The loop of sequencingRulesCheckProcess over rulesToCheck, from rule i on.
RECURSIVE checkRules(_, _, _, _, _)
checkRules(rulesToCheck, i, activity, e, now) ==
  IF i > Len(rulesToCheck) THEN e
  ELSE LET rule == rulesToCheck[i]
           ruleResult == evaluateSequencingRule(rule, activity, e.asi, now)
       IN checkRules(rulesToCheck, i + 1, activity,
                     IF ruleResult THEN executeRuleAction(rule.action, activity, e) ELSE e,
                     now)

sequencingRulesCheckProcess(activity, event, e, now) ==
  LET sequencingRules == activityTree[activity].sequencingDefinition.sequencingRules
      rulesToCheck ==
        IF event = "entry"
          THEN sequencingRules.preConditionRule
          ELSE sequencingRules.exitConditionRule \o sequencingRules.postConditionRule
  IN checkRules(rulesToCheck, 1, activity, e, now)

(***************************************************************************)
(* Rollup (lines 713-822)                                                  *)
(***************************************************************************)

executeRollupAction(action, activity, asi) ==
  CASE action = "satisfied" -> setObjectiveSatisfiedStatus(asi, activity, TRUE, "")
    [] action = "notSatisfied" -> setObjectiveSatisfiedStatus(asi, activity, FALSE, "")
    [] action = "completed" ->
         [asi EXCEPT ![activity].activityProgressStatus = TRUE,
                     ![activity].activityCompletionStatus = TRUE]
    [] action = "incomplete" ->
         [asi EXCEPT ![activity].activityProgressStatus = TRUE,
                     ![activity].activityCompletionStatus = FALSE]
    [] OTHER -> asi

applyRollupRule(rule, activity, asi, now) ==
  LET children == activityTree[activity].children
      childResults ==
        { <<c, k, evaluateRuleCondition(rule.conditions[k], children[c], asi, now)>> :
            c \in DOMAIN children, k \in DOMAIN rule.conditions }
      ruleResult ==
        IF rule.conditionCombination = "all"
          THEN \A r \in childResults : r[3]
          ELSE \E r \in childResults : r[3]
  IN IF ruleResult THEN executeRollupAction(rule.action, activity, asi) ELSE asi

applyDefaultRollup(activity, asi) ==
  LET children == activityTree[activity].children
      allChildrenComplete ==
        \A c \in DOMAIN children :
           /\ asi[children[c]].activityProgressStatus
           /\ asi[children[c]].activityCompletionStatus
      asi1 == IF allChildrenComplete
                THEN [asi EXCEPT ![activity].activityProgressStatus = TRUE,
                                 ![activity].activityCompletionStatus = TRUE]
                ELSE asi
      allChildrenSatisfied ==
        \A c \in DOMAIN children : getObjectiveSatisfiedStatus(asi1, children[c], "")
  IN IF allChildrenSatisfied
       THEN setObjectiveSatisfiedStatus(asi1, activity, TRUE, "")
       ELSE asi1

\* The loop of rollupActivityState over the explicit rollup rules, from rule i on.
RECURSIVE applyRollupRules(_, _, _, _, _)
applyRollupRules(rollupRule, i, activity, asi, now) ==
  IF i > Len(rollupRule) THEN asi
  ELSE applyRollupRules(rollupRule, i + 1, activity,
                        applyRollupRule(rollupRule[i], activity, asi, now), now)

rollupActivityState(activity, asi, now) ==
  LET rollupRules == activityTree[activity].sequencingDefinition.rollupRules
  IN IF activityTree[activity].isLeaf THEN asi
     ELSE IF rollupRules.defined
       THEN applyRollupRules(rollupRules.rollupRule, 1, activity, asi, now)
       ELSE applyDefaultRollup(activity, asi)

RECURSIVE rollupProcess(_, _, _)
rollupProcess(activity, asi, now) ==
  IF activity = null THEN asi
  ELSE rollupProcess(activityTree[activity].parent,
                     rollupActivityState(activity, asi, now), now)

(***************************************************************************)
(* Control modes and children (lines 942-994)                              *)
(***************************************************************************)

isChoiceValid(activity) ==
  activityTree[activity].sequencingDefinition.controlMode.choice # FALSE

isContinueAllowed(activity) ==
  activityTree[activity].sequencingDefinition.controlMode.flow # FALSE

isPreviousAllowed(activity) ==
  ~activityTree[activity].sequencingDefinition.controlMode.forwardOnly

\* Array.findIndex by identifier, 1-based; 0 when there is none.
findIndex(siblings, identifier) ==
  IF \E i \in DOMAIN siblings : siblings[i] = identifier
    THEN CHOOSE i \in DOMAIN siblings :
           /\ siblings[i] = identifier
           /\ \A j \in DOMAIN siblings : siblings[j] = identifier => i <= j
    ELSE 0

getFirstChild(activity) ==
  IF Len(activityTree[activity].children) = 0 THEN null
  ELSE activityTree[activity].children[1]

\* The parameter `activity` is not read: the siblings are those of the
\* session's current activity.
getNextChild(activity, current) ==
  IF current = null \/ activityTree[current].parent = null THEN null
  ELSE LET siblings == activityTree[activityTree[current].parent].children
           currentIndex == findIndex(siblings, current)
       IN IF currentIndex = 0 \/ currentIndex = Len(siblings) THEN null
          ELSE siblings[currentIndex + 1]

getPreviousChild(activity, current) ==
  IF current = null \/ activityTree[current].parent = null THEN null
  ELSE LET siblings == activityTree[activityTree[current].parent].children
           currentIndex == findIndex(siblings, current)
       IN IF currentIndex <= 1 THEN null
          ELSE siblings[currentIndex - 1]

findActivity(identifier) ==
  IF identifier \in Activities THEN identifier ELSE null

\* Depth-first search for the first suspended activity.
RECURSIVE findSuspendedActivity(_, _)
findSuspendedActivity(activity, asi) ==
  IF asi[activity].activityIsSuspended THEN activity
  ELSE LET children == activityTree[activity].children
           found == [c \in DOMAIN children |-> findSuspendedActivity(children[c], asi)]
       IN IF \E c \in DOMAIN found : found[c] # null
            THEN found[CHOOSE c \in DOMAIN found :
                         /\ found[c] # null
                         /\ \A d \in DOMAIN found : found[d] # null => c <= d]
            ELSE null


(***************************************************************************)
(* Flow subprocess (lines 400-438).  seen holds the calls on the stack:    *)
(* the subprocess reads no state that changes while it runs, so a call     *)
(* that comes back to itself recurses until the stack overflows.           *)
(***************************************************************************)

RECURSIVE flowSubprocess(_, _, _, _, _, _)
flowSubprocess(activity, entry, reverse, e, now, seen) ==
  IF <<activity, entry, reverse>> \in seen THEN RangeError
  ELSE IF /\ activityTree[activity].isLeaf
          /\ entry
          /\ isActivityDeliverable(activity, e.asi, now)
    THEN activity
  ELSE LET targetChild ==
             IF activityTree[activity].isLeaf THEN null
             ELSE IF entry THEN getFirstChild(activity)
             ELSE IF reverse THEN getPreviousChild(activity, e.currentActivity)
             ELSE getNextChild(activity, e.currentActivity)
           parent == activityTree[activity].parent
           stack == seen \cup { <<activity, entry, reverse>> }
       IN IF targetChild # null
            THEN flowSubprocess(targetChild, TRUE, reverse, e, now, stack)
          ELSE IF parent # null
            THEN flowSubprocess(parent, FALSE, reverse, e, now, stack)
          ELSE null

(***************************************************************************)
(* Request handlers (lines 304-398)                                        *)
(***************************************************************************)

startSequencingRequestProcess(e, now) ==
  LET rootActivity == manifest.organizations[1].identifier
  IN IF ~isChoiceValid(rootActivity) THEN null
     ELSE flowSubprocess(rootActivity, TRUE, FALSE, e, now, {})

resumeAllSequencingRequestProcess(e, now) ==
  LET suspendedActivity ==
        findSuspendedActivity(manifest.organizations[1].identifier, e.asi)
  IN IF suspendedActivity # null THEN suspendedActivity
     ELSE startSequencingRequestProcess(e, now)

continueSequencingRequestProcess(e, now) ==
  IF e.currentActivity = null THEN null
  ELSE IF ~isContinueAllowed(e.currentActivity) THEN null
  ELSE flowSubprocess(e.currentActivity, FALSE, FALSE, e, now, {})

previousSequencingRequestProcess(e, now) ==
  IF e.currentActivity = null THEN null
  ELSE IF ~isPreviousAllowed(e.currentActivity) THEN null
  ELSE flowSubprocess(e.currentActivity, FALSE, TRUE, e, now, {})

choiceSequencingRequestProcess(targetId, e, now) ==
  LET targetActivity == findActivity(targetId)
  IN IF targetActivity = null THEN null
     ELSE IF ~isChoiceValid(targetActivity) THEN null
     ELSE flowSubprocess(targetActivity, TRUE, FALSE, e, now, {})

\* Without a parent the handler itself sets endSession (line 393).
\* exitSequencingRequestProcess that identifies nothing where the current
\* activity's control mode forbids flow.
exitSequencingRequestProcess_ChecksFlow(e, now) ==
  IF e.currentActivity = null THEN [e |-> e, activity |-> null]
  ELSE LET parent == activityTree[e.currentActivity].parent
       IN IF parent = null
            THEN [e |-> [e EXCEPT !.endSession = TRUE], activity |-> null]
          ELSE IF ~isContinueAllowed(e.currentActivity)
            THEN [e |-> e, activity |-> null]
            ELSE [e |-> e, activity |-> flowSubprocess(parent, FALSE, FALSE, e, now, {})]

exitSequencingRequestProcess(e, now) ==
  IF e.currentActivity = null THEN [e |-> e, activity |-> null]
  ELSE LET parent == activityTree[e.currentActivity].parent
       IN IF parent = null
            THEN [e |-> [e EXCEPT !.endSession = TRUE], activity |-> null]
            ELSE [e |-> e, activity |-> flowSubprocess(parent, FALSE, FALSE, e, now, {})]

(***************************************************************************)
(* The processes of the Overall Sequencing Process (lines 148-302, 451-469)*)
(***************************************************************************)

validRequests ==
  { "start", "resumeAll", "continue", "previous", "choice",
    "exit", "exitAll", "abandon", "abandonAll" }

\* navigationRequestProcess that does not consult the target's choice flag.
navigationRequestProcess_NoChoiceTest(request, targetId, e) ==
  IF request \notin validRequests THEN FALSE
  ELSE IF e.endSession THEN FALSE
  ELSE CASE request \in {"start", "resumeAll"} -> e.currentActivity = null
         [] request \in {"continue", "previous", "exit", "abandon"} ->
              e.currentActivity # null
         [] request = "choice" ->
              IF targetId = "" THEN FALSE
              ELSE findActivity(targetId) # null
         [] OTHER -> TRUE

\* TRUE iff the request is valid.
navigationRequestProcess(request, targetId, e) ==
  IF request \notin validRequests THEN FALSE
  ELSE IF e.endSession THEN FALSE
  ELSE CASE request \in {"start", "resumeAll"} -> e.currentActivity = null
         [] request \in {"continue", "previous", "exit", "abandon"} ->
              e.currentActivity # null
         [] request = "choice" ->
              IF targetId = "" THEN FALSE
              ELSE IF findActivity(targetId) = null THEN FALSE
              ELSE isChoiceValid(findActivity(targetId))
         [] OTHER -> TRUE

\* terminationRequestProcess that leaves the departed activity flagged active.
terminationRequestProcess_KeepsActive(e, now) ==
  IF e.currentActivity = null THEN e
  ELSE LET checked == sequencingRulesCheckProcess(e.currentActivity, "exit", e, now)
       IN [checked EXCEPT !.asi = rollupProcess(e.currentActivity, checked.asi, now)]

\* terminationRequestProcess that marks the departed activity suspended.
terminationRequestProcess_Suspends(e, now) ==
  IF e.currentActivity = null THEN e
  ELSE LET cleared == [e EXCEPT !.asi[e.currentActivity].activityIsActive = FALSE,
                                !.asi[e.currentActivity].activityIsSuspended = TRUE]
           checked == sequencingRulesCheckProcess(e.currentActivity, "exit", cleared, now)
       IN [checked EXCEPT !.asi = rollupProcess(e.currentActivity, checked.asi, now)]

terminationRequestProcess(e, now) ==
  IF e.currentActivity = null THEN e
  ELSE LET cleared == [e EXCEPT !.asi[e.currentActivity].activityIsActive = FALSE]
           checked == sequencingRulesCheckProcess(e.currentActivity, "exit", cleared, now)
       IN [checked EXCEPT !.asi = rollupProcess(e.currentActivity, checked.asi, now)]

\* The switch of sequencingRequestProcess: [e, activity], the handler's result.
dispatchSequencingRequest(request, targetId, e, now) ==
  CASE request = "start" ->
         [e |-> e, activity |-> startSequencingRequestProcess(e, now)]
    [] request = "resumeAll" ->
         [e |-> e, activity |-> resumeAllSequencingRequestProcess(e, now)]
    [] request = "continue" ->
         [e |-> e, activity |-> continueSequencingRequestProcess(e, now)]
    [] request = "previous" ->
         [e |-> e, activity |-> previousSequencingRequestProcess(e, now)]
    [] request = "choice" ->
         [e |-> e,
          activity |-> IF targetId # ""
                         THEN choiceSequencingRequestProcess(targetId, e, now)
                         ELSE null]
    [] request = "exit" -> exitSequencingRequestProcess(e, now)
    [] request = "abandon" ->
         [e |-> e, activity |-> continueSequencingRequestProcess(e, now)]

\* identifyActivity that does not end the session when nothing is identified.
identifyActivity_KeepsSession(handled) ==
  IF handled.activity = RangeError
    THEN [e |-> handled.e, valid |-> FALSE, activity |-> RangeError]
  ELSE IF handled.activity # null
    THEN [e |-> handled.e, valid |-> TRUE, activity |-> handled.activity]
  ELSE [e |-> handled.e, valid |-> FALSE, activity |-> null]

\* The end of sequencingRequestProcess (lines 296-301), which a stack overflow
\* in the handler never reaches.
identifyActivity(handled) ==
  IF handled.activity = RangeError
    THEN [e |-> handled.e, valid |-> FALSE, activity |-> RangeError]
  ELSE IF handled.activity # null
    THEN [e |-> handled.e, valid |-> TRUE, activity |-> handled.activity]
  ELSE [e |-> [handled.e EXCEPT !.endSession = TRUE], valid |-> FALSE, activity |-> null]

\* sequencingRequestProcess whose exitAll and abandonAll do not end the session.
sequencingRequestProcess_SessionStaysOpen(request, targetId, e, now) ==
  IF request \in {"exitAll", "abandonAll"}
    THEN [e |-> e, valid |-> TRUE, activity |-> null]
    ELSE identifyActivity(dispatchSequencingRequest(request, targetId, e, now))

\* sequencingRequestProcess whose exitAll and abandonAll also clear the current
\* activity.
sequencingRequestProcess_ClearsCurrent(request, targetId, e, now) ==
  IF request \in {"exitAll", "abandonAll"}
    THEN [e |-> [e EXCEPT !.endSession = TRUE, !.currentActivity = null],
          valid |-> TRUE, activity |-> null]
    ELSE identifyActivity(dispatchSequencingRequest(request, targetId, e, now))

\* [e, valid, activity]; activity = RangeError when the flow does not return.
sequencingRequestProcess(request, targetId, e, now) ==
  IF request \in {"exitAll", "abandonAll"}
    THEN [e |-> [e EXCEPT !.endSession = TRUE], valid |-> TRUE, activity |-> null]
    ELSE identifyActivity(dispatchSequencingRequest(request, targetId, e, now))

\* deliveryRequestProcess that activates the activity without making it the
\* current one.
deliveryRequestProcess_KeepsCurrent(activity, e, now) ==
  IF ~isActivityDeliverable(activity, e.asi, now) THEN [e |-> e, result |-> null]
  ELSE LET delivered == [e EXCEPT !.asi[activity].activityIsActive = TRUE]
       IN [e |-> sequencingRulesCheckProcess(activity, "entry", delivered, now),
           result |-> activity]

\* [e, result]
deliveryRequestProcess(activity, e, now) ==
  IF ~isActivityDeliverable(activity, e.asi, now) THEN [e |-> e, result |-> null]
  ELSE LET delivered == [e EXCEPT !.currentActivity = activity,
                                  !.asi[activity].activityIsActive = TRUE]
       IN [e |-> sequencingRulesCheckProcess(activity, "entry", delivered, now),
           result |-> activity]

\* Step 4 of overallSequencingProcess (lines 171-176): [e, result].
deliverIdentified(sequencingResult, now) ==
  IF sequencingResult.activity = RangeError
    THEN [e |-> sequencingResult.e, result |-> RangeError]
  ELSE IF sequencingResult.valid /\ sequencingResult.activity # null
    THEN deliveryRequestProcess(sequencingResult.activity, sequencingResult.e, now)
  ELSE [e |-> sequencingResult.e, result |-> null]

\* Step 2 of overallSequencingProcess (lines 163-166).
terminateCurrent(e, now) ==
  IF e.currentActivity # null THEN terminationRequestProcess(e, now) ELSE e

\* processRequest that lets the handler identify the activity before the
\* current one is terminated.
processRequest_TerminatesAfterHandler(navigationRequest, targetActivityId, e, now) ==
  IF ~navigationRequestProcess(navigationRequest, targetActivityId, e)
    THEN [e |-> e, result |-> null]
    ELSE deliverIdentified(
           [sequencingRequestProcess(navigationRequest, targetActivityId, e, now)
              EXCEPT !.e = terminateCurrent(@, now)],
           now)

\* Steps 1-4 once endSession has been reset.
processRequest(navigationRequest, targetActivityId, e, now) ==
  IF ~navigationRequestProcess(navigationRequest, targetActivityId, e)
    THEN [e |-> e, result |-> null]
    ELSE deliverIdentified(
           sequencingRequestProcess(navigationRequest, targetActivityId,
                                    terminateCurrent(e, now), now),
           now)

\* [e, result]; result = RangeError when the call ends in a stack overflow.
overallSequencingProcess(navigationRequest, targetActivityId, e, now) ==
  processRequest(navigationRequest, targetActivityId, [e EXCEPT !.endSession = FALSE], now)

(***************************************************************************)
(* Construction and the public API (lines 77-84, 1098-1111)                *)
(***************************************************************************)

Engine == [currentActivity |-> currentActivity, endSession |-> endSession,
           asi |-> activityStateInformation]

\* The readings of new Date() a call can see, in milliseconds since the epoch:
\* the wall clock, before or after the time limit of the manifests.  Only
\* isOutsideAvailableTimeRange reads it.
Clock == {1, 3}

\* isOutsideAvailableTimeRange returns before new Date() when the activity has
\* neither time limit (lines 899-901): in a tree without time limits no call
\* reads the clock, and one reading stands for all.
ClockReadings ==
  IF \E a \in Activities :
       \/ activityTree[a].sequencingDefinition.limitConditions.beginTimeLimit # ""
       \/ activityTree[a].sequencingDefinition.limitConditions.endTimeLimit # ""
    THEN Clock
    ELSE { CHOOSE now \in Clock : TRUE }

\* getAvailableNavigationRequests that offers previous whatever forwardOnly says.
getAvailableNavigationRequests_AlwaysPrevious(e) ==
  IF e.currentActivity = null THEN << >>
  ELSE (IF isContinueAllowed(e.currentActivity) THEN << "continue" >> ELSE << >>)
         \o << "previous" >>
         \o (IF isChoiceValid(e.currentActivity) THEN << "choice" >> ELSE << >>)
         \o << "exit", "exitAll", "abandon", "abandonAll" >>

\* getAvailableNavigationRequests(): the list it returns.
getAvailableNavigationRequests(e) ==
  IF e.currentActivity = null THEN << >>
  ELSE (IF isContinueAllowed(e.currentActivity) THEN << "continue" >> ELSE << >>)
         \o (IF isPreviousAllowed(e.currentActivity) THEN << "previous" >> ELSE << >>)
         \o (IF isChoiceValid(e.currentActivity) THEN << "choice" >> ELSE << >>)
         \o << "exit", "exitAll", "abandon", "abandonAll" >>

\* An Error object, and the absence of one.
Error(message) == [name |-> "Error", message |-> message]
NoError == [name |-> "", message |-> ""]

\* new SCORMSequencingEngine(m): the error thrown (lines 88-90) or the tree.
SCORMSequencingEngine(m) ==
  IF Len(m.organizations) = 0
    THEN [thrown |-> Error("No organizations found in manifest"), activityTree |-> << >>]
    ELSE [thrown |-> NoError, activityTree |-> buildActivityTree(m)]

\* Without an engine there is nothing to call; lastRequest stays "".
Init ==
  /\ manifest \in Manifests
  /\ thrown = SCORMSequencingEngine(manifest).thrown
  /\ activityTree = SCORMSequencingEngine(manifest).activityTree
  /\ activityStateInformation =
       [a \in DOMAIN SCORMSequencingEngine(manifest).activityTree |-> initializeActivityState]
  /\ currentActivity = null
  /\ endSession = FALSE
  /\ lastRequest = ""
  /\ lastTarget = ""
  /\ lastFrom = null
  /\ lastResult = null
  /\ url = << >>
  /\ parserCall = ""
  /\ parserResult = FALSE
  /\ givenRule = SCORMRule("all", << >>, "")
  /\ ruleCall = ""
  /\ ruleValue = FALSE
  /\ NoApi
  /\ NoHandler
  /\ NoWalk

\* processNavigationRequest(request, targetId)
processNavigationRequest(request, targetId) ==
  \E now \in ClockReadings :
    LET out == overallSequencingProcess(request, targetId, Engine, now)
    IN /\ thrown = NoError
       /\ currentActivity' = out.e.currentActivity
       /\ endSession' = out.e.endSession
       /\ activityStateInformation' = out.e.asi
       /\ lastRequest' = request
       /\ lastTarget' = targetId
       /\ lastFrom' = currentActivity
       /\ lastResult' = out.result
       /\ UNCHANGED << manifest, thrown, activityTree, parserVars, ruleVars, restVars >>

\* startSequence()
StartSequence == processNavigationRequest("start", "")

ResumeAll == processNavigationRequest("resumeAll", "")

Continue == processNavigationRequest("continue", "")

Previous == processNavigationRequest("previous", "")

\* a choice with a target of the tree, an unknown target or none
Choice == \E targetId \in Activities \cup {"", "unknown"} :
            processNavigationRequest("choice", targetId)

Exit == processNavigationRequest("exit", "")

ExitAll == processNavigationRequest("exitAll", "")

Abandon == processNavigationRequest("abandon", "")

AbandonAll == processNavigationRequest("abandonAll", "")

\* a token outside the navigation vocabulary
UnknownRequest == processNavigationRequest("jump", "")

Next ==
  \/ StartSequence
  \/ ResumeAll
  \/ Continue
  \/ Previous
  \/ Choice
  \/ Exit
  \/ ExitAll
  \/ Abandon
  \/ AbandonAll
  \/ UnknownRequest

Spec == Init /\ [][Next]_vars


(***************************************************************************)
(* SCORMParser: the URL helpers (part_003, lines 861-951).                 *)
(* A string is a sequence of lexical units: "https://example.com/a.ZIP?x"  *)
(* is << "https", ":", "//", "host", "/", "a", ".", "ZIP", "?", "x" >>.    *)
(* No unit holds part of a pattern the helpers search for.                 *)
(***************************************************************************)

MaxSegments == 2

toLowerCase(s) == [i \in DOMAIN s |-> IF s[i] = "ZIP" THEN "zip" ELSE s[i]]

endsWith(s, searchString) ==
  /\ Len(searchString) <= Len(s)
  /\ SubSeq(s, Len(s) - Len(searchString) + 1, Len(s)) = searchString

includes(s, searchString) ==
  \E i \in 1..(Len(s) - Len(searchString) + 1) :
     SubSeq(s, i, i + Len(searchString) - 1) = searchString

\* The schemes of the inputs; all three are special schemes of the URL standard.
Schemes == {"http", "https", "ftp"}

\* new URL(input) without a base: TRUE iff it does not throw.  The input must
\* start with a scheme and ":", and a special scheme needs a non-empty host
\* after any slashes.
RECURSIVE SkipSlashes(_, _)
SkipSlashes(s, i) ==
  IF i <= Len(s) /\ s[i] \in {"//", "/"} THEN SkipSlashes(s, i + 1) ELSE i

URL(input) ==
  /\ Len(input) >= 2
  /\ input[1] \in Schemes
  /\ input[2] = ":"
  /\ SkipSlashes(input, 3) <= Len(input)
  /\ input[SkipSlashes(input, 3)] \notin {"?", "#"}

isValidUrl(input) == URL(input)

isManifestUrl(input) ==
  LET urlLower == toLowerCase(input)
  IN \/ endsWith(urlLower, << "ims", "manifest", ".", "xml" >>)
     \/ endsWith(urlLower, << "manifest", ".", "xml" >>)
     \/ endsWith(urlLower, << "manifest", ".", "xml", "/" >>)
     \/ includes(urlLower, << "/", "ims", "manifest", ".", "xml" >>)
     \/ includes(urlLower, << "/", "manifest", ".", "xml" >>)

nonZipExtensions ==
  << "pdf", "doc", "docx", "txt", "html", "htm", "css", "js", "json", "xml" >>

isZipFile(input) ==
  LET urlLower == toLowerCase(input)
  IN IF \/ endsWith(urlLower, << ".", "zip" >>)
        \/ includes(urlLower, << ".", "zip", "?" >>)
        \/ includes(urlLower, << ".", "zip", "#" >>)
       THEN TRUE
     ELSE IF isManifestUrl(input) THEN FALSE
     ELSE IF endsWith(urlLower, << "/" >>) THEN FALSE
     ELSE IF \E k \in DOMAIN nonZipExtensions :
               \/ endsWith(urlLower, << ".", nonZipExtensions[k] >>)
               \/ includes(urlLower, << ".", nonZipExtensions[k], "?" >>)
       THEN FALSE
     ELSE FALSE

\* The inputs: nothing or scheme://host/ or a scheme alone, then up to
\* MaxSegments path segments (a name, with or without an extension), then
\* nothing, a slash, a query or a fragment.
Origins ==
  { << >> } \cup { << scheme, ":", "//", "host", "/" >> : scheme \in Schemes }
            \cup { << "http", ":", "//" >> }

FileNames ==
  { name \o extension :
      name \in { << "package" >>, << "ims", "manifest" >> },
      extension \in { << >> } \cup
        { << ".", e >> : e \in {"zip", "ZIP", "pdf", "html", "txt", "xml"} } }

RECURSIVE Paths(_)
Paths(n) ==
  IF n = 0 THEN { << >> }
  ELSE Paths(n - 1) \cup
       UNION { { path \o (IF path = << >> THEN << >> ELSE << "/" >>) \o file :
                   file \in FileNames }
               : path \in { q \in Paths(n - 1) : q # << >> \/ n = 1 } }

Suffixes == { << >>, << "/" >>, << "?", "param=value" >>, << "#", "section" >> }

Urls ==
  { origin \o path \o suffix :
      origin \in Origins, path \in Paths(MaxSegments), suffix \in Suffixes }

ParserInit ==
  /\ manifest = EmptyManifest
  /\ thrown = SCORMSequencingEngine(manifest).thrown
  /\ activityTree = SCORMSequencingEngine(manifest).activityTree
  /\ activityStateInformation = << >>
  /\ currentActivity = null
  /\ endSession = FALSE
  /\ lastRequest = ""
  /\ lastTarget = ""
  /\ lastFrom = null
  /\ lastResult = null
  /\ url \in Urls
  /\ parserCall = ""
  /\ parserResult = FALSE
  /\ givenRule = SCORMRule("all", << >>, "")
  /\ ruleCall = ""
  /\ ruleValue = FALSE
  /\ NoApi
  /\ NoHandler
  /\ NoWalk

IsValidUrl ==
  /\ parserCall' = "isValidUrl"
  /\ parserResult' = isValidUrl(url)
  /\ UNCHANGED << engineVars, url, ruleVars, restVars >>

IsZipFile ==
  /\ parserCall' = "isZipFile"
  /\ parserResult' = isZipFile(url)
  /\ UNCHANGED << engineVars, url, ruleVars, restVars >>

ParserNext == IsValidUrl \/ IsZipFile

ParserSpec == ParserInit /\ [][ParserNext]_vars


(***************************************************************************)
(* Rule evaluation on its own (lines 541-635, 868-925): one activity, its  *)
(* limit conditions and its state drawn from the values they can take.     *)
(***************************************************************************)

MaxConditions == 2

\* The limit conditions of the activity the rules are evaluated on.
LimitConfigurations ==
  { SCORMLimitConditions(attemptLimit, durationLimit, beginTimeLimit, "") :
      attemptLimit \in {0, 2}, durationLimit \in {"", "PT1H"},
      beginTimeLimit \in {"", TimeLimit} }

LimitManifests ==
  { Manifest(1, << 0 >>, 1,
             Profile("res", TRUE,
                     SCORMSequencing(NoControlMode, NoSequencingRules, NoRollupRules, limits)))
      : limits \in LimitConfigurations }

\* The states of that activity: as created, and completed by a skip action.
EvaluatedStates ==
  { initializeActivityState,
    [initializeActivityState EXCEPT !.activityProgressStatus = TRUE,
                                    !.activityCompletionStatus = TRUE] }

\* Conditions the switch of evaluateRuleCondition knows, and one it does not.
ConditionNames ==
  { "completed", "attemptLimitExceeded", "timeLimitExceeded",
    "outsideAvailableTimeRange", "mastered" }

RuleConditions ==
  { SCORMRuleCondition(condition, operator) :
      condition \in ConditionNames, operator \in {"noOp", "not"} }

RECURSIVE ConditionLists(_)
ConditionLists(n) ==
  IF n = 0 THEN { << >> }
  ELSE ConditionLists(n - 1) \cup
       { Append(conditions, c) :
           conditions \in { l \in ConditionLists(n - 1) : Len(l) = n - 1 },
           c \in RuleConditions }

Rules ==
  { SCORMRule(combination, conditions, "skip") :
      combination \in {"all", "any"}, conditions \in ConditionLists(MaxConditions) }

RuleInit ==
  /\ manifest \in LimitManifests
  /\ thrown = SCORMSequencingEngine(manifest).thrown
  /\ activityTree = SCORMSequencingEngine(manifest).activityTree
  /\ activityStateInformation \in
       { [a \in DOMAIN SCORMSequencingEngine(manifest).activityTree |->
            IF a = Id(1) THEN state ELSE initializeActivityState] : state \in EvaluatedStates }
  /\ currentActivity = null
  /\ endSession = FALSE
  /\ lastRequest = ""
  /\ lastTarget = ""
  /\ lastFrom = null
  /\ lastResult = null
  /\ url = << >>
  /\ parserCall = ""
  /\ parserResult = FALSE
  /\ givenRule \in Rules
  /\ ruleCall = ""
  /\ ruleValue = FALSE
  /\ NoApi
  /\ NoHandler
  /\ NoWalk

\* evaluateSequencingRule(rule, activity)
EvaluateSequencingRule ==
  \E now \in ClockReadings :
    /\ ruleCall' = "evaluateSequencingRule"
    /\ ruleValue' = evaluateSequencingRule(givenRule, Id(1), activityStateInformation, now)
    /\ UNCHANGED << engineVars, parserVars, givenRule, restVars >>

\* evaluateRuleCondition(condition, activity) on the rule's first condition
EvaluateRuleCondition ==
  \E now \in ClockReadings :
    /\ Len(givenRule.ruleConditions) > 0
    /\ ruleCall' = "evaluateRuleCondition"
    /\ ruleValue' = evaluateRuleCondition(givenRule.ruleConditions[1], Id(1),
                                           activityStateInformation, now)
    /\ UNCHANGED << engineVars, parserVars, givenRule, restVars >>

RuleNext == EvaluateSequencingRule \/ EvaluateRuleCondition

RuleSpec == RuleInit /\ [][RuleNext]_vars


(***************************************************************************)
(* SCORMAPIImplementation (part_001, lines 11-434).  A data model element  *)
(* name is the sequence of its lexical units: "cmi.core.total_time" is     *)
(* << "cmi", ".", "core", ".", "total_", "time" >>, so that no unit holds  *)
(* part of a pattern isValidValue searches for.  A value is a string atom; *)
(* what parseFloat, the regular expressions and length make of it is       *)
(* tabulated for the values the calls are made with.                       *)
(***************************************************************************)

undefined == "undefined"

startsWith(s, searchString) ==
  /\ Len(searchString) <= Len(s)
  /\ SubSeq(s, 1, Len(searchString)) = searchString

\* "cmi.core.lesson_status" etc. as sequences of units
cmi(rest) == << "cmi", "." >> \o rest

scorm12Elements ==
  { << "cmi", ".", "core", ".", "_children" >>,
    << "cmi", ".", "core", ".", "student_id" >>,
    << "cmi", ".", "core", ".", "student_name" >>,
    << "cmi", ".", "core", ".", "lesson_location" >>,
    << "cmi", ".", "core", ".", "credit" >>,
    << "cmi", ".", "core", ".", "lesson_status" >>,
    << "cmi", ".", "core", ".", "entry" >>,
    << "cmi", ".", "core", ".", "score", ".", "_children" >>,
    << "cmi", ".", "core", ".", "score", ".", "raw" >>,
    << "cmi", ".", "core", ".", "score", ".", "max" >>,
    << "cmi", ".", "core", ".", "score", ".", "min" >>,
    << "cmi", ".", "core", ".", "total_", "time" >>,
    << "cmi", ".", "core", ".", "lesson_mode" >>,
    << "cmi", ".", "core", ".", "exit" >>,
    << "cmi", ".", "core", ".", "session_", "time" >>,
    << "cmi", ".", "suspend_data" >>,
    << "cmi", ".", "launch_data" >>,
    << "cmi", ".", "comments" >>,
    << "cmi", ".", "comments_from_lms" >>,
    << "cmi", ".", "objectives", ".", "_children" >>,
    << "cmi", ".", "objectives", ".", "_count" >>,
    << "cmi", ".", "interactions", ".", "_children" >>,
    << "cmi", ".", "interactions", ".", "_count" >>,
    << "cmi", ".", "student_data", ".", "_children" >>,
    << "cmi", ".", "student_data", ".", "mastery_score" >>,
    << "cmi", ".", "student_data", ".", "max_", "time", "_allowed" >>,
    << "cmi", ".", "student_data", ".", "time", "_limit_action" >>,
    << "cmi", ".", "student_preference", ".", "_children" >>,
    << "cmi", ".", "student_preference", ".", "audio" >>,
    << "cmi", ".", "student_preference", ".", "language" >>,
    << "cmi", ".", "student_preference", ".", "speed" >>,
    << "cmi", ".", "student_preference", ".", "text" >> }

scorm2004Elements ==
  { << "cmi", ".", "_version" >>,
    << "cmi", ".", "completion_status" >>,
    << "cmi", ".", "completion_threshold" >>,
    << "cmi", ".", "credit" >>,
    << "cmi", ".", "entry" >>,
    << "cmi", ".", "exit" >>,
    << "cmi", ".", "launch_data" >>,
    << "cmi", ".", "learner_id" >>,
    << "cmi", ".", "learner_name" >>,
    << "cmi", ".", "learner_preference", ".", "_children" >>,
    << "cmi", ".", "learner_preference", ".", "audio_level" >>,
    << "cmi", ".", "learner_preference", ".", "language" >>,
    << "cmi", ".", "learner_preference", ".", "delivery_speed" >>,
    << "cmi", ".", "learner_preference", ".", "audio_captioning" >>,
    << "cmi", ".", "location" >>,
    << "cmi", ".", "max_", "time", "_allowed" >>,
    << "cmi", ".", "mode" >>,
    << "cmi", ".", "objectives", ".", "_children" >>,
    << "cmi", ".", "objectives", ".", "_count" >>,
    << "cmi", ".", "progress_measure" >>,
    << "cmi", ".", "scaled_passing_score" >>,
    << "cmi", ".", "score", ".", "_children" >>,
    << "cmi", ".", "score", ".", "scaled" >>,
    << "cmi", ".", "score", ".", "raw" >>,
    << "cmi", ".", "score", ".", "min" >>,
    << "cmi", ".", "score", ".", "max" >>,
    << "cmi", ".", "session_", "time" >>,
    << "cmi", ".", "success_status" >>,
    << "cmi", ".", "suspend_data" >>,
    << "cmi", ".", "time", "_limit_action" >>,
    << "cmi", ".", "total_", "time" >>,
    << "cmi", ".", "comments_from_learner", ".", "_children" >>,
    << "cmi", ".", "comments_from_learner", ".", "_count" >>,
    << "cmi", ".", "comments_from_lms", ".", "_children" >>,
    << "cmi", ".", "comments_from_lms", ".", "_count" >>,
    << "cmi", ".", "interactions", ".", "_children" >>,
    << "cmi", ".", "interactions", ".", "_count" >>,
    << "adl", ".", "nav", ".", "request" >>,
    << "adl", ".", "nav", ".", "request_valid", ".", "continue" >>,
    << "adl", ".", "nav", ".", "request_valid", ".", "previous" >>,
    << "adl", ".", "nav", ".", "request_valid", ".", "choice" >>,
    << "adl", ".", "nav", ".", "request_valid", ".", "jump" >> }

\* The digit strings (\d+) of the element names in use.
Digits == {"0", "1", "12"}

\* /^<prefix>\.\d+\.(<field>|...)$/
MatchesIndexed(element, prefix, fields) ==
  \E n \in Digits, field \in fields : element = prefix \o << ".", n, "." >> \o field

dynamicPatterns(element) ==
  \/ MatchesIndexed(element, cmi(<< "objectives" >>),
       { << "id" >>, << "score", ".", "_children" >>, << "score", ".", "scaled" >>,
         << "score", ".", "raw" >>, << "score", ".", "min" >>, << "score", ".", "max" >>,
         << "success_status" >>, << "completion_status" >>, << "progress_measure" >>,
         << "description" >> })
  \/ MatchesIndexed(element, cmi(<< "interactions" >>),
       { << "id" >>, << "type" >>, << "objectives", ".", "_count" >>, << "time", "stamp" >>,
         << "correct_responses", ".", "_count" >>, << "weighting" >>,
         << "learner_response" >>, << "result" >>, << "latency" >>, << "description" >> })
  \/ \E n \in Digits :
       \/ MatchesIndexed(element, cmi(<< "interactions", ".", n, ".", "objectives" >>),
                         { << "id" >> })
       \/ MatchesIndexed(element, cmi(<< "interactions", ".", n, ".", "correct_responses" >>),
                         { << "pattern" >> })
  \/ MatchesIndexed(element, cmi(<< "comments_from_learner" >>),
       { << "comment" >>, << "location" >>, << "time", "stamp" >> })
  \/ MatchesIndexed(element, cmi(<< "comments_from_lms" >>),
       { << "comment" >>, << "location" >>, << "time", "stamp" >> })

isValidElement(version, element) ==
  LET validElements == IF version = "1.2" THEN scorm12Elements ELSE scorm2004Elements
  IN IF element \in validElements THEN TRUE
     ELSE IF version = "2004" THEN dynamicPatterns(element)
     ELSE FALSE

\* The values the calls are made with.
Values == {"", "completed", "50", "PT1H", "abc"}

\* parseFloat(value): the number, NaN where the value does not start with one.
parseFloat(value) == IF value = "50" THEN 50 ELSE NaN

\* timePattern.test(value) || /^\d{2}:\d{2}:\d{2}(\.\d+)?$/.test(value)
IsTime(value) == value = "PT1H"

\* /^[\d\.]+$/.test(value)
IsNumeric(value) == value = "50"

\* value.length
length(value) ==
  CASE value = "" -> 0
    [] value = "50" -> 2
    [] value = "abc" -> 3
    [] value = "PT1H" -> 4
    [] value = "completed" -> 9

isValidValue(version, element, value) ==
  IF \/ includes(element, << "score", ".", "raw" >>)
     \/ includes(element, << "score", ".", "max" >>)
     \/ includes(element, << "score", ".", "min" >>)
    THEN value = "" \/ parseFloat(value) # NaN
  ELSE IF includes(element, << "score", ".", "scaled" >>)
    THEN \/ value = ""
         \/ parseFloat(value) # NaN /\ parseFloat(value) >= -1 /\ parseFloat(value) <= 1
  ELSE IF element = cmi(<< "core", ".", "lesson_status" >>)
    THEN value \in {"passed", "completed", "failed", "incomplete", "browsed", "not attempted"}
  ELSE IF element = cmi(<< "completion_status" >>)
    THEN value \in {"completed", "incomplete", "not attempted", "unknown"}
  ELSE IF element = cmi(<< "success_status" >>)
    THEN value \in {"passed", "failed", "unknown"}
  ELSE IF includes(element, << "time" >>) /\ value # ""
    THEN IsTime(value)
  ELSE IF element \in {cmi(<< "core", ".", "credit" >>), cmi(<< "credit" >>)}
    THEN value \in {"credit", "no-credit"}
  ELSE IF element \in {cmi(<< "core", ".", "lesson_mode" >>), cmi(<< "mode" >>)}
    THEN value \in {"browse", "normal", "review"}
  ELSE IF element \in {cmi(<< "core", ".", "entry" >>), cmi(<< "entry" >>)}
    THEN value \in {"ab-initio", "resume", ""}
  ELSE IF element \in {cmi(<< "core", ".", "exit" >>), cmi(<< "exit" >>)}
    THEN IF version = "1.2"
           THEN value \in {"time-out", "suspend", "logout", ""}
           ELSE value \in {"time-out", "suspend", "logout", "normal", ""}
  ELSE IF element = cmi(<< "progress_measure" >>)
    THEN \/ value = ""
         \/ parseFloat(value) # NaN /\ parseFloat(value) >= 0 /\ parseFloat(value) <= 1
  ELSE IF element = << "adl", ".", "nav", ".", "request" >>
    THEN value \in {"continue", "previous", "choice", "exit", "exitAll", "abandon",
                    "abandonAll"}
  ELSE IF startsWith(element, << "adl", ".", "nav", ".", "request_valid", "." >>)
    THEN value \in {"true", "false", "unknown"}
  ELSE IF includes(element, << "interactions", "." >>) /\ endsWith(element, << ".", "type" >>)
    THEN value \in {"true-false", "choice", "fill-in", "long-fill-in", "matching",
                    "performance", "sequencing", "likert", "numeric", "other"}
  ELSE IF includes(element, << "interactions", "." >>) /\ endsWith(element, << ".", "result" >>)
    THEN value \in {"correct", "incorrect", "unanticipated", "neutral"} \/ IsNumeric(value)
  ELSE IF element = cmi(<< "learner_preference", ".", "audio_captioning" >>)
    THEN value \in {"-1", "0", "1"}
  ELSE IF element = cmi(<< "time", "_limit_action" >>)
    THEN value \in {"exit,message", "exit,no message", "continue,message",
                    "continue,no message"}
  ELSE IF element = cmi(<< "suspend_data" >>)
    THEN length(value) <= (IF version = "1.2" THEN 4096 ELSE 64000)
  ELSE TRUE

\* this.dataModel[element]
Stored(dataModel, element) ==
  IF element \in DOMAIN dataModel THEN dataModel[element] ELSE undefined

\* { ...dataModel, ...data }
Spread(dataModel, data) ==
  [element \in DOMAIN dataModel \cup DOMAIN data |->
     IF element \in DOMAIN data THEN data[element] ELSE dataModel[element]]

\* setError(code, message)
setError(a, code) == [a EXCEPT !.errorCode = code]

\* Each method: the object after the call and what the call returned.
LMSInitialize(a) ==
  IF a.initialized THEN [api |-> setError(a, "101"), result |-> "false"]
  ELSE [api |-> [a EXCEPT !.initialized = TRUE, !.errorCode = "0"], result |-> "true"]

\* LMSFinish that empties the data model.
LMSFinish_ClearsData(a) ==
  IF ~a.initialized THEN [api |-> setError(a, "102"), result |-> "false"]
  ELSE [api |-> [a EXCEPT !.initialized = FALSE, !.errorCode = "0", !.dataModel = << >>],
        result |-> "true"]

LMSFinish(a) ==
  IF ~a.initialized THEN [api |-> setError(a, "102"), result |-> "false"]
  ELSE [api |-> [a EXCEPT !.initialized = FALSE, !.errorCode = "0"], result |-> "true"]

LMSGetValue(a, element) ==
  IF ~a.initialized THEN [api |-> setError(a, "102"), result |-> ""]
  ELSE IF Stored(a.dataModel, element) = undefined
    THEN [api |-> setError(a, "301"), result |-> ""]
  ELSE [api |-> [a EXCEPT !.errorCode = "0"], result |-> Stored(a.dataModel, element)]

LMSSetValue(a, element, value) ==
  IF ~a.initialized THEN [api |-> setError(a, "102"), result |-> "false"]
  ELSE IF ~isValidElement(a.version, element)
    THEN [api |-> setError(a, "351"), result |-> "false"]
  ELSE IF ~isValidValue(a.version, element, value)
    THEN [api |-> setError(a, "351"), result |-> "false"]
  ELSE [api |-> [a EXCEPT !.dataModel = Spread(@, [e \in {element} |-> value]),
                          !.errorCode = "0"],
        result |-> "true"]

\* LMSCommit that leaves the error code of the previous call in place.
LMSCommit_KeepsError(a) ==
  IF ~a.initialized THEN [api |-> setError(a, "102"), result |-> "false"]
  ELSE [api |-> a, result |-> "true"]

LMSCommit(a) ==
  IF ~a.initialized THEN [api |-> setError(a, "102"), result |-> "false"]
  ELSE [api |-> [a EXCEPT !.errorCode = "0"], result |-> "true"]

LMSGetLastError(a) == [api |-> a, result |-> a.errorCode]

setDataModel(a, data) == [a EXCEPT !.dataModel = Spread(@, data)]

\* The element names the calls are made with: static elements of either
\* version, an indexed element, and a name of no version.
Elements ==
  { cmi(<< "core", ".", "lesson_status" >>),
    cmi(<< "core", ".", "score", ".", "raw" >>),
    cmi(<< "core", ".", "session_", "time" >>),
    cmi(<< "suspend_data" >>),
    cmi(<< "completion_status" >>),
    cmi(<< "objectives", ".", "0", ".", "id" >>),
    cmi(<< "bogus" >>) }

\* The arguments setDataModel is called with.
DataModelUpdates ==
  { [e \in {cmi(<< "core", ".", "lesson_status" >>)} |-> "abc"],
    [e \in {cmi(<< "suspend_data" >>)} |-> undefined],
    [e \in {cmi(<< "suspend_data" >>), cmi(<< "completion_status" >>)} |-> "completed"] }

\* new SCORMAPIImplementation(version)
SCORMAPIImplementation(version) ==
  [version |-> version, dataModel |-> << >>, initialized |-> FALSE, errorCode |-> "0"]

ApiInit ==
  /\ manifest = EmptyManifest
  /\ thrown = SCORMSequencingEngine(manifest).thrown
  /\ activityTree = SCORMSequencingEngine(manifest).activityTree
  /\ activityStateInformation = << >>
  /\ currentActivity = null
  /\ endSession = FALSE
  /\ lastRequest = ""
  /\ lastTarget = ""
  /\ lastFrom = null
  /\ lastResult = null
  /\ url = << >>
  /\ parserCall = ""
  /\ parserResult = FALSE
  /\ givenRule = SCORMRule("all", << >>, "")
  /\ ruleCall = ""
  /\ ruleValue = FALSE
  /\ api \in { SCORMAPIImplementation(version) : version \in {"1.2", "2004"} }
  /\ apiCall = [method |-> "", element |-> << >>, value |-> "", result |-> ""]
  /\ written = << >>
  /\ NoHandler
  /\ NoWalk

\* A call of a method: the object and the record of the call.
Called(method, element, value, out) ==
  /\ api' = out.api
  /\ apiCall' = [method |-> method, element |-> element, value |-> value,
                 result |-> out.result]
  /\ UNCHANGED << engineVars, parserVars, ruleVars, handlerVars, walkVars >>

CallLMSInitialize ==
  /\ Called("LMSInitialize", << >>, "", LMSInitialize(api))
  /\ UNCHANGED written

CallLMSFinish ==
  /\ Called("LMSFinish", << >>, "", LMSFinish(api))
  /\ UNCHANGED written

CallLMSGetValue ==
  \E element \in Elements :
    /\ Called("LMSGetValue", element, "", LMSGetValue(api, element))
    /\ UNCHANGED written

\* written records the element and value of a call that returned "true".
CallLMSSetValue ==
  \E element \in Elements, value \in Values :
    /\ Called("LMSSetValue", element, value, LMSSetValue(api, element, value))
    /\ written' = IF LMSSetValue(api, element, value).result = "true"
                    THEN Spread(written, [e \in {element} |-> value])
                    ELSE written

CallLMSCommit ==
  /\ Called("LMSCommit", << >>, "", LMSCommit(api))
  /\ UNCHANGED written

CallLMSGetLastError ==
  /\ Called("LMSGetLastError", << >>, "", LMSGetLastError(api))
  /\ UNCHANGED written

CallSetDataModel ==
  \E data \in DataModelUpdates :
    /\ Called("setDataModel", << >>, "", [api |-> setDataModel(api, data), result |-> ""])
    /\ written' = Spread(written, data)

ApiNext ==
  \/ CallLMSInitialize
  \/ CallLMSFinish
  \/ CallLMSGetValue
  \/ CallLMSSetValue
  \/ CallLMSCommit
  \/ CallLMSGetLastError
  \/ CallSetDataModel

ApiSpec == ApiInit /\ [][ApiNext]_vars


(***************************************************************************)
(* SCORMCrossOriginHandler (scorm-cross-origin.ts, lines 18-104).  The     *)
(* resolve function kept in pendingRequests is identified with its request *)
(* id; promises records every value a resolve function was called with,    *)
(* the first of which is the value of the promise.  The 5000 ms of a timer *)
(* are abstracted: its callback runs at any later step.                    *)
(***************************************************************************)

MaxRequests == 2

\* `scorm_${Date.now()}_${++this.requestId}`
generateRequestId(h, now) == << "scorm", now, h.requestId + 1 >>

\* Every request id the handler can generate, and one more it never does.
RequestIds == { << "scorm", now, n >> : now \in Clock, n \in 1..(MaxRequests + 1) }

\* The result fields of the response messages.
Results == {"true", ""}

\* The handler, its timers and its promises as one value.
Endpoint == [handler |-> handler, timers |-> timers, promises |-> promises]

\* resolve(value) of request id
resolve(p, id, value) == [p EXCEPT ![id] = Append(@, value)]

\* new SCORMCrossOriginHandler()
SCORMCrossOriginHandler ==
  [handler |-> [requestId |-> 0, pendingRequests |-> {}, messageHandler |-> TRUE],
   timers |-> {},
   promises |-> << >>]

makeAPICall(s, now) ==
  LET id == generateRequestId(s.handler, now)
  IN [handler |-> [s.handler EXCEPT !.requestId = @ + 1,
                                    !.pendingRequests = @ \cup {id}],
      timers |-> s.timers \cup {id},
      promises |-> [r \in DOMAIN s.promises \cup {id} |->
                      IF r = id THEN << >> ELSE s.promises[r]]]

\* The listener set up by setupMessageHandler, on a message event.
messageHandler(s, data) ==
  IF data.type = "SCORM_API_RESPONSE" /\ data.requestId \in s.handler.pendingRequests
    THEN [s EXCEPT !.handler.pendingRequests = @ \ {data.requestId},
                   !.promises = resolve(@, data.requestId, data.result)]
    ELSE s

\* The setTimeout callback of request id that tests nothing.
timeout_Unconditional(s, id) ==
  [s EXCEPT !.timers = @ \ {id},
            !.handler.pendingRequests = @ \ {id},
            !.promises = resolve(@, id, "false")]

\* The setTimeout callback of request id.
timeout(s, id) ==
  IF id \in s.handler.pendingRequests
    THEN [s EXCEPT !.timers = @ \ {id},
                   !.handler.pendingRequests = @ \ {id},
                   !.promises = resolve(@, id, "false")]
    ELSE [s EXCEPT !.timers = @ \ {id}]

destroy(s) ==
  [s EXCEPT !.handler.messageHandler = FALSE, !.handler.pendingRequests = {}]

HandlerInit ==
  /\ manifest = EmptyManifest
  /\ thrown = SCORMSequencingEngine(manifest).thrown
  /\ activityTree = SCORMSequencingEngine(manifest).activityTree
  /\ activityStateInformation = << >>
  /\ currentActivity = null
  /\ endSession = FALSE
  /\ lastRequest = ""
  /\ lastTarget = ""
  /\ lastFrom = null
  /\ lastResult = null
  /\ url = << >>
  /\ parserCall = ""
  /\ parserResult = FALSE
  /\ givenRule = SCORMRule("all", << >>, "")
  /\ ruleCall = ""
  /\ ruleValue = FALSE
  /\ NoApi
  /\ handler = SCORMCrossOriginHandler.handler
  /\ timers = SCORMCrossOriginHandler.timers
  /\ promises = SCORMCrossOriginHandler.promises
  /\ lastEvent = [type |-> "", requestId |-> << >>, result |-> ""]
  /\ NoWalk

\* A step of the handler: its new state and the record of the step, whose
\* type is the type of the message for a message event.
Step(type, requestId, result, s) ==
  /\ handler' = s.handler
  /\ timers' = s.timers
  /\ promises' = s.promises
  /\ lastEvent' = [type |-> type, requestId |-> requestId, result |-> result]

\* What no step of the handler changes.
handlerFrame == << engineVars, parserVars, ruleVars, apiVars, walkVars >>

\* A method of the object createAPI returns is called.
MakeAPICall ==
  \E now \in Clock :
    /\ handler.requestId < MaxRequests
    /\ Step("makeAPICall", generateRequestId(handler, now), "", makeAPICall(Endpoint, now))
    /\ UNCHANGED handlerFrame

\* A message event reaches the window: a response of the parent or any other
\* message; the listener runs while it is registered.
Message ==
  \E type \in {"SCORM_API_RESPONSE", "SCORM_API_CALL"},
     requestId \in RequestIds, result \in Results :
    /\ Step(type, requestId, result,
            IF handler.messageHandler
              THEN messageHandler(Endpoint,
                                  [type |-> type, requestId |-> requestId, result |-> result])
              ELSE Endpoint)
    /\ UNCHANGED handlerFrame

\* The timer of a request expires.
Timeout(id) ==
  /\ id \in timers
  /\ Step("timeout", id, "", timeout(Endpoint, id))
  /\ UNCHANGED handlerFrame

Destroy ==
  /\ Step("destroy", << >>, "", destroy(Endpoint))
  /\ UNCHANGED handlerFrame

HandlerNext ==
  \/ MakeAPICall
  \/ Message
  \/ \E id \in RequestIds : Timeout(id)
  \/ Destroy

HandlerSpec == HandlerInit /\ [][HandlerNext]_vars

\* Every timer the handler started expires.
HandlerFairSpec ==
  /\ HandlerSpec
  /\ \A id \in RequestIds : WF_vars(Timeout(id))


(***************************************************************************)
(* The pre-order walk of the activity tree (lines 996-1080), called on the *)
(* activities of trees built from manifests.                               *)
(***************************************************************************)

getNextSibling(activity) ==
  IF activityTree[activity].parent = null THEN null
  ELSE LET siblings == activityTree[activityTree[activity].parent].children
           currentIndex == findIndex(siblings, activity)
       IN IF currentIndex = 0 \/ currentIndex = Len(siblings) THEN null
          ELSE siblings[currentIndex + 1]

getPreviousSibling(activity) ==
  IF activityTree[activity].parent = null THEN null
  ELSE LET siblings == activityTree[activityTree[activity].parent].children
           currentIndex == findIndex(siblings, activity)
       IN IF currentIndex <= 1 THEN null
          ELSE siblings[currentIndex - 1]

RECURSIVE getLastDescendant(_)
getLastDescendant(activity) ==
  LET children == activityTree[activity].children
  IN IF Len(children) = 0 THEN activity
     ELSE getLastDescendant(children[Len(children)])

\* Step 3 of getNextActivityInTree: the next sibling of the nearest ancestor
\* that has one.
RECURSIVE AncestorNextSibling(_)
AncestorNextSibling(ancestor) ==
  IF ancestor = null THEN null
  ELSE IF getNextSibling(ancestor) # null THEN getNextSibling(ancestor)
  ELSE AncestorNextSibling(activityTree[ancestor].parent)

\* getNextActivityInTree that does not walk up the tree.
getNextActivityInTree_NoClimb(activity) ==
  IF Len(activityTree[activity].children) > 0 THEN activityTree[activity].children[1]
  ELSE getNextSibling(activity)

getNextActivityInTree(activity) ==
  IF Len(activityTree[activity].children) > 0 THEN activityTree[activity].children[1]
  ELSE IF getNextSibling(activity) # null THEN getNextSibling(activity)
  ELSE AncestorNextSibling(activityTree[activity].parent)

getPreviousActivityInTree(activity) ==
  IF getPreviousSibling(activity) # null
    THEN getLastDescendant(getPreviousSibling(activity))
  ELSE IF activityTree[activity].parent # null THEN activityTree[activity].parent
  ELSE null

WalkInit ==
  /\ manifest \in PlainManifests
  /\ thrown = SCORMSequencingEngine(manifest).thrown
  /\ activityTree = SCORMSequencingEngine(manifest).activityTree
  /\ activityStateInformation =
       [a \in DOMAIN SCORMSequencingEngine(manifest).activityTree |-> initializeActivityState]
  /\ currentActivity = null
  /\ endSession = FALSE
  /\ lastRequest = ""
  /\ lastTarget = ""
  /\ lastFrom = null
  /\ lastResult = null
  /\ url = << >>
  /\ parserCall = ""
  /\ parserResult = FALSE
  /\ givenRule = SCORMRule("all", << >>, "")
  /\ ruleCall = ""
  /\ ruleValue = FALSE
  /\ NoApi
  /\ NoHandler
  /\ NoWalk

\* What no call of the walk changes.
walkFrame == << engineVars, parserVars, ruleVars, apiVars, handlerVars >>

GetNextActivityInTree ==
  \E activity \in Activities :
    /\ walkCall' = [method |-> "getNextActivityInTree", activity |-> activity,
                    result |-> getNextActivityInTree(activity)]
    /\ UNCHANGED << visited, walkFrame >>

GetPreviousActivityInTree ==
  \E activity \in Activities :
    /\ walkCall' = [method |-> "getPreviousActivityInTree", activity |-> activity,
                    result |-> getPreviousActivityInTree(activity)]
    /\ UNCHANGED << visited, walkFrame >>

\* One more step of getNextActivityInTree iterated from the root, for as long
\* as it returns an activity and no longer than the tree has activities.
IterateNext ==
  LET next == IF visited = << >> THEN manifest.organizations[1].identifier
              ELSE getNextActivityInTree(visited[Len(visited)])
  IN /\ next # null
     /\ Len(visited) <= Cardinality(Activities)
     /\ visited' = Append(visited, next)
     /\ UNCHANGED << walkCall, walkFrame >>

WalkNext == GetNextActivityInTree \/ GetPreviousActivityInTree \/ IterateNext

WalkSpec == WalkInit /\ [][WalkNext]_vars


(***************************************************************************)
(* Properties                                                              *)
(***************************************************************************)

Returned == lastResult \in Activities

ActiveActivities ==
  { a \in Activities : activityStateInformation[a].activityIsActive }

HasChildren(a) == Len(activityTree[a].children) > 0

\* No item of the manifest has a sequencing element.
NoSequencingDefinitions ==
  \A a \in Activities : activityTree[a].sequencingDefinition = NoSequencing

\* The tree root -> [i1, i2], both leaves bound to a resource, no sequencing.
TwoLeafTree == manifest = Manifest(2, << 0, 0 >>, 0, Plain)

\* a and each of its ancestors is the last child of its parent.
RECURSIVE IsLastOfTree(_)
IsLastOfTree(a) ==
  \/ activityTree[a].parent = null
  \/ /\ LET siblings == activityTree[activityTree[a].parent].children
        IN siblings[Len(siblings)] = a
     /\ IsLastOfTree(activityTree[a].parent)

\* C1: after every call at most one activity of the tree has
\* activityIsActive = true.
C1_SingleActive == Cardinality(ActiveActivities) <= 1

\* A call has moved the session from one activity to another, which is active.
C1_Witness ==
  /\ Returned
  /\ lastFrom \notin {null, lastResult}
  /\ ActiveActivities = {lastResult}

\* C2: every identifier a call returns names an activity without children
\* whose manifest item has a non-empty identifierref.
C2_LeafDelivery ==
  Returned =>
    /\ ~HasChildren(lastResult)
    /\ activityTree[lastResult].item.identifierref # ""

\* An activity is returned from a tree that also holds a leaf without resource.
C2_Witness ==
  /\ Returned
  /\ \E a \in Activities \ {"org"} :
       ~HasChildren(a) /\ activityTree[a].item.identifierref = ""

\* C3: once the session has ended, every later call returns null.
C3_EndedStaysEnded == [][endSession => lastResult' = null]_vars

\* The rejections of navigation validation that C4 lists.
RejectedByValidation(request, targetId, current) ==
  \/ request \notin validRequests
  \/ request \in {"start", "resumeAll"} /\ current # null
  \/ request \in {"continue", "previous", "exit", "abandon"} /\ current = null
  \/ /\ request = "choice"
     /\ \/ targetId = ""
        \/ targetId \notin Activities
        \/ ~activityTree[targetId].sequencingDefinition.controlMode.choice

\* C4: a call rejected by navigation validation returns null and leaves the
\* current activity, every activity's state and the endSession flag as they were.
C4_RejectionChangesNothing ==
  [][RejectedByValidation(lastRequest', lastTarget', currentActivity) =>
       /\ lastResult' = null
       /\ UNCHANGED << currentActivity, activityStateInformation, endSession >>]_vars

\* C5: every call terminates, returning an identifier or null.
C5_CallsReturn == lastResult \in Activities \cup {null}

\* C6: on the tree root -> [i1, i2] a start request made while nothing is
\* current returns i1 and makes it the current activity.
C6_StartDeliversFirstLeaf ==
  (TwoLeafTree /\ lastRequest = "start" /\ lastFrom = null) =>
     lastResult = "i1" /\ currentActivity = "i1"

\* C7: on the tree root -> [i1, i2] continue from i1 returns i2 and previous
\* from i2 returns i1.
C7_AdjacentSibling ==
  TwoLeafTree =>
    /\ (lastRequest = "continue" /\ lastFrom = "i1") => lastResult = "i2"
    /\ (lastRequest = "previous" /\ lastFrom = "i2") => lastResult = "i1"

\* C8: a continue request made while the current activity is the last leaf of
\* the tree returns null, ends the session and leaves no activity active: the
\* state an exitAll request made in its place leaves.
C8_ContinuePastLastLeaf ==
  [][(lastRequest' = "continue" /\ currentActivity # null /\ IsLastOfTree(currentActivity)) =>
       /\ lastResult' = null
       /\ endSession'
       /\ ActiveActivities' = {}
       /\ \A now \in Clock :
            [currentActivity |-> currentActivity', endSession |-> endSession',
             asi |-> activityStateInformation']
              = overallSequencingProcess("exitAll", "", Engine, now).e]_vars

\* A continue request was made from the last leaf of a tree of several items.
C8_Witness ==
  /\ lastRequest = "continue"
  /\ lastFrom # null
  /\ IsLastOfTree(lastFrom)
  /\ Cardinality(Activities) > 2
  /\ lastResult = null
  /\ endSession

\* The precondition rule {condition satisfied, operator not, action skip}.
HasSkipUnlessSatisfiedRule(a) ==
  \E i \in DOMAIN activityTree[a].sequencingDefinition.sequencingRules.preConditionRule :
     LET rule == activityTree[a].sequencingDefinition.sequencingRules.preConditionRule[i]
     IN /\ rule.action = "skip"
        /\ rule.ruleConditions = << SCORMRuleCondition("satisfied", "not") >>

\* C9: a leaf with the precondition rule {satisfied, not, skip} whose primary
\* objective is not satisfied is never delivered: it does not become the
\* current activity and no call returns it.
C9_SkippedLeafNotDelivered ==
  \A a \in Activities :
     (HasSkipUnlessSatisfiedRule(a)
        /\ ~getObjectiveSatisfiedStatus(activityStateInformation, a, "")) =>
       /\ currentActivity # a
       /\ lastResult # a

\* C10: in a tree without sequencing definitions, a previous request made
\* right after a continue request that delivered an activity returns the
\* activity that was current before the continue.
C10_PreviousUndoesContinue ==
  [][(/\ NoSequencingDefinitions
      /\ lastRequest = "continue"
      /\ Returned
      /\ lastRequest' = "previous") => lastResult' = lastFrom]_vars

\* The target of the call being made is an activity whose control mode has
\* choice = false.
ChoiceDisabledTarget(request, targetId) ==
  /\ request = "choice"
  /\ targetId \in Activities
  /\ activityTree[targetId].sequencingDefinition.controlMode.choice = FALSE

\* C11: a choice request whose target has controlMode.choice = false returns
\* null, and the current activity and its active flag are the same after the
\* call as before it.
C11_DisabledChoiceRejected ==
  [][ChoiceDisabledTarget(lastRequest', lastTarget') =>
       /\ lastResult' = null
       /\ currentActivity' = currentActivity
       /\ currentActivity # null =>
            activityStateInformation'[currentActivity].activityIsActive
              = activityStateInformation[currentActivity].activityIsActive]_vars

\* A choice with a choice-disabled target was made while another activity was
\* current and active.
C11_Witness ==
  /\ ChoiceDisabledTarget(lastRequest, lastTarget)
  /\ lastFrom \notin {null, lastTarget}
  /\ currentActivity = lastFrom
  /\ activityStateInformation[lastFrom].activityIsActive

\* a lies in the subtree of p (p itself included).
RECURSIVE IsWithin(_, _)
IsWithin(a, p) ==
  \/ a = p
  \/ activityTree[a].parent # null /\ IsWithin(activityTree[a].parent, p)

\* The activities without children in the subtree of p.
LeafDescendants(p) == { a \in Activities : ~HasChildren(a) /\ IsWithin(a, p) }

IsComplete(asi, a) ==
  asi[a].activityProgressStatus /\ asi[a].activityCompletionStatus

\* The activity states right after termination of the current activity.
AfterTermination(now) ==
  terminationRequestProcess([Engine EXCEPT !.endSession = FALSE], now).asi

\* C12: for every activity P with children (the root included) and without
\* explicit rollup rules, if termination of the current activity leaves every
\* leaf descendant of P complete (progress and completion status true), it
\* leaves P complete as well.
C12_CompletionRollsUp ==
  currentActivity # null =>
    \A now \in Clock : \A p \in Activities :
       (/\ HasChildren(p)
        /\ ~activityTree[p].sequencingDefinition.rollupRules.defined
        /\ currentActivity \in LeafDescendants(p)
        /\ \A a \in LeafDescendants(p) : IsComplete(AfterTermination(now), a))
         => IsComplete(AfterTermination(now), p)

\* C14: an exitAll or abandonAll request, made in any state, returns null,
\* marks the session ended and leaves no activity flagged active.
C14_ExitAllEndsSession ==
  lastRequest \in {"exitAll", "abandonAll"} =>
    /\ lastResult = null
    /\ endSession
    /\ ActiveActivities = {}

\* An exitAll or abandonAll request was made while an activity was current.
C14_Witness ==
  /\ lastRequest \in {"exitAll", "abandonAll"}
  /\ lastFrom # null
  /\ currentActivity = lastFrom
  /\ endSession
  /\ ActiveActivities = {}

\* The control mode of the current activity.
CurrentControlMode == activityTree[currentActivity].sequencingDefinition.controlMode

\* C15: getAvailableNavigationRequests returns the empty list when there is no
\* current activity; otherwise the list holds continue iff the current
\* activity's flow flag is not false, previous iff its forwardOnly flag is not
\* true, choice iff its choice flag is not false, and always exit, exitAll,
\* abandon and abandonAll.
C15_AvailableRequests ==
  LET available == Range(getAvailableNavigationRequests(Engine))
  IN IF currentActivity = null THEN getAvailableNavigationRequests(Engine) = << >>
     ELSE /\ "continue" \in available <=> CurrentControlMode.flow # FALSE
          /\ "previous" \in available <=> CurrentControlMode.forwardOnly # TRUE
          /\ "choice" \in available <=> CurrentControlMode.choice # FALSE
          /\ {"exit", "exitAll", "abandon", "abandonAll"} \subseteq available
          /\ available \subseteq validRequests \ {"start", "resumeAll"}

\* The current activity is forward-only, so previous is not offered while
\* continue and choice are.
C15_Witness ==
  /\ currentActivity # null
  /\ CurrentControlMode.forwardOnly
  /\ getAvailableNavigationRequests(Engine)
       = << "continue", "choice", "exit", "exitAll", "abandon", "abandonAll" >>

\* The current activity as termination leaves it, the clock reading `now`.
Terminated(now) == terminationRequestProcess([Engine EXCEPT !.endSession = FALSE], now)

\* C19: for every request that passes validation while there is a current
\* activity, termination (active flag cleared, exit and post rules executed,
\* rollup up the ancestors) is complete before the handler identifies the
\* target; the handler runs with currentActivity still naming the departed
\* activity, and only a successful delivery overwrites currentActivity.
C19_TerminationPrecedesHandler ==
  [][(/\ currentActivity # null
      /\ navigationRequestProcess(lastRequest', lastTarget',
                                  [Engine EXCEPT !.endSession = FALSE]))
       => /\ \E now \in Clock :
               /\ Terminated(now).currentActivity = currentActivity
               /\ lastResult' = deliverIdentified(
                                  sequencingRequestProcess(lastRequest', lastTarget',
                                                           Terminated(now), now),
                                  now).result
          /\ currentActivity' # currentActivity =>
               /\ lastResult' = currentActivity'
               /\ ~activityStateInformation'[currentActivity].activityIsActive]_vars

\* A choice of the current activity itself was made; termination completed it
\* through its exit rule, so the handler, running afterwards, found it no
\* longer deliverable.
C19_Witness ==
  /\ lastRequest = "choice"
  /\ lastFrom # null
  /\ lastTarget = lastFrom
  /\ lastResult # lastFrom
  /\ currentActivity = lastFrom
  /\ IsComplete(activityStateInformation, lastFrom)
  /\ Len(activityTree[lastFrom].sequencingDefinition.sequencingRules.exitConditionRule) > 0

\* a is a leaf that can never be delivered: its item has no identifierref or
\* is not visible.
NeverDeliverable(a) ==
  /\ a # manifest.organizations[1].identifier
  /\ ~HasChildren(a)
  /\ \/ activityTree[a].item.identifierref = ""
     \/ activityTree[a].item.isvisible = FALSE

\* b is a later sibling of a and a leaf that is always deliverable.
DeliverableLaterSibling(a, b) ==
  /\ activityTree[b].parent = activityTree[a].parent
  /\ ~HasChildren(b)
  /\ activityTree[b].item = SCORMItem(b, Plain.identifierref, Plain.isvisible, Plain.sequencing)
  /\ LET siblings == activityTree[activityTree[a].parent].children
     IN findIndex(siblings, a) < findIndex(siblings, b)

\* C20: when the flow enters a leaf that is not deliverable, the search goes on
\* in the direction of travel and the next deliverable leaf is delivered: a
\* choice of a never-deliverable leaf that has a deliverable later sibling
\* returns an activity, not null.
C20_FlowSkipsUndeliverableLeaf ==
  (/\ lastRequest = "choice"
   /\ lastTarget \in Activities
   /\ NeverDeliverable(lastTarget)
   /\ \E b \in Activities : DeliverableLaterSibling(lastTarget, b))
    => Returned

\* The tokens a caller can pass, and the targets that go with them.
Requests == validRequests \cup {"jump"}

Targets(request) == IF request = "choice" THEN Activities \cup {"", "unknown"} ELSE {""}

TimeLimits(a) ==
  { activityTree[a].sequencingDefinition.limitConditions.beginTimeLimit,
    activityTree[a].sequencingDefinition.limitConditions.endTimeLimit } \ {""}

\* The conditions named by the sequencing rules of a.
RuleConditionsOf(a) ==
  LET sequencingRules == activityTree[a].sequencingDefinition.sequencingRules
      rules == sequencingRules.preConditionRule \o sequencingRules.exitConditionRule
                 \o sequencingRules.postConditionRule
  IN UNION { { rules[i].ruleConditions[k].condition :
                 k \in DOMAIN rules[i].ruleConditions } : i \in DOMAIN rules }

\* Some activity has a begin or end time limit and a rule on
\* outsideAvailableTimeRange.
UsesAvailableTimeRange ==
  \E a \in Activities :
     TimeLimits(a) # {} /\ "outsideAvailableTimeRange" \in RuleConditionsOf(a)

\* C13 as stated: two engines that are in the same state (same manifest, same
\* requests so far) return the same identifier or null for the same request,
\* whatever their clocks read, limit conditions included.
C13_SameResultsAnyClock ==
  thrown = NoError =>
  \A request \in Requests : \A targetId \in Targets(request) :
    \A now1 \in Clock, now2 \in Clock :
       overallSequencingProcess(request, targetId, Engine, now1).result
         = overallSequencingProcess(request, targetId, Engine, now2).result

\* C13 amended: unless an activity combines a begin or end time limit with a
\* rule on outsideAvailableTimeRange, the same request made in the same state
\* returns the same result and leaves the same state whatever the clock reads.
C13_SameResultsWithoutTimeRange ==
  (thrown = NoError /\ ~UsesAvailableTimeRange) =>
    \A request \in Requests : \A targetId \in Targets(request) :
      \E outcome \in { overallSequencingProcess(request, targetId, Engine, now) :
                         now \in Clock } :
         \A now \in Clock :
            overallSequencingProcess(request, targetId, Engine, now) = outcome

\* A call returned an activity that has a begin time limit and a rule on
\* another condition.
C13_Witness ==
  /\ ~UsesAvailableTimeRange
  /\ Returned
  /\ TimeLimits(lastResult) # {}
  /\ RuleConditionsOf(lastResult) # {}

\* The identifiers of `items` and of everything nested in them.
RECURSIVE ItemsWithin(_)
ItemsWithin(items) ==
  UNION { { manifest.item[i].identifier } \cup ItemsWithin(SubItems(manifest.enclosing, i))
          : i \in Range(items) }

\* What C16 says of a successful construction: the tree holds the first
\* organization and its items, and nothing else.
BuiltFromFirstOrganization ==
  LET org == manifest.organizations[1]
  IN /\ thrown = NoError
     /\ Activities = {org.identifier} \cup ItemsWithin(org.items)
     /\ activityTree[org.identifier].parent = null
     /\ activityTree[org.identifier].children
          = [c \in DOMAIN org.items |-> manifest.item[org.items[c]].identifier]

\* Nothing was produced: no tree, no session, and no call was ever served.
NoEngine ==
  /\ Activities = {}
  /\ DOMAIN activityStateInformation = {}
  /\ currentActivity = null
  /\ lastRequest = ""

\* C16 as stated: construction from a manifest without organizations fails
\* with a ManifestError and produces no engine; with one or more organizations
\* it succeeds and the tree is built from the first organization only.
C16_FailsWithManifestError ==
  IF Len(manifest.organizations) = 0
    THEN thrown.name = "ManifestError" /\ NoEngine
    ELSE BuiltFromFirstOrganization

\* C16 amended: construction from a manifest without organizations throws a
\* plain Error with the message "No organizations found in manifest" and
\* produces no engine; with one or more organizations it succeeds and the tree
\* is built from the first organization only.
C16_FailsWithError ==
  IF Len(manifest.organizations) = 0
    THEN thrown = Error("No organizations found in manifest") /\ NoEngine
    ELSE BuiltFromFirstOrganization

\* An engine built from a manifest with two organizations has delivered an
\* activity.
C16_Witness ==
  /\ Len(manifest.organizations) = 2
  /\ thrown = NoError
  /\ Returned

\* u is a well-formed http or https URL: scheme://, a host name and whatever
\* follows.
IsHttpUrl(u) ==
  /\ Len(u) >= 4
  /\ u[1] \in {"http", "https"}
  /\ SubSeq(u, 2, 3) = << ":", "//" >>
  /\ u[4] \notin {"/", "//", "?", "#"}

\* C17: isValidUrl returns true for well-formed http and https URLs and false
\* for every other input: strings that are not URLs, the empty string, and
\* well-formed URLs with another scheme such as ftp.
C17_OnlyHttpUrlsValid ==
  parserCall = "isValidUrl" => (parserResult <=> IsHttpUrl(url))

\* The part of u before its query or fragment.
RECURSIVE UpToQuery(_)
UpToQuery(u) ==
  IF u = << >> \/ Head(u) \in {"?", "#"} THEN << >>
  ELSE << Head(u) >> \o UpToQuery(Tail(u))

\* The path of u ends in "." followed by one of `extensions`.
PathEndsIn(u, extensions) ==
  LET path == UpToQuery(u)
  IN /\ Len(path) >= 2
     /\ path[Len(path) - 1] = "."
     /\ path[Len(path)] \in extensions

\* The last path segment of u is a name without extension.
LastSegmentWithoutExtension(u) ==
  LET path == UpToQuery(u)
  IN /\ Len(path) >= 6
     /\ path[Len(path)] \in {"package", "manifest"}

\* C18: isZipFile returns true for URLs whose path ends in .zip in any letter
\* case, also when a query string or fragment follows; false for URLs ending
\* in a known non-zip extension (.pdf, .html, .txt); and true for URLs whose
\* last path segment has no extension.
C18_ZipDetection ==
  (parserCall = "isZipFile" /\ IsHttpUrl(url)) =>
    /\ PathEndsIn(url, {"zip", "ZIP"}) => parserResult
    /\ PathEndsIn(url, {"pdf", "html", "txt"}) => ~parserResult
    /\ LastSegmentWithoutExtension(url) => parserResult

\* C21: whenever a call returns an identifier X, X is the current activity
\* right afterwards and X's activityIsActive is true, whatever actions X's
\* precondition rules executed during delivery.
C21_DeliveredIsActive ==
  Returned =>
    /\ currentActivity = lastResult
    /\ activityStateInformation[lastResult].activityIsActive

\* C22: a continue request made while the current activity's flow flag is
\* false, a previous request made while its forwardOnly flag is true, and any
\* request whose token getAvailableNavigationRequests omits for the current
\* activity return null.
C22_OmittedRequestsReturnNull ==
  [][(/\ currentActivity # null
      /\ lastRequest' \notin Range(getAvailableNavigationRequests(Engine)))
       => lastResult' = null]_vars

\* The children of p, as a set.
Children(p) == Range(activityTree[p].children)

\* C23: in every state observable after a request returns, every activity P
\* with children and without explicit rollup rules is complete iff each of its
\* children is complete, and its primary objective is satisfied iff each
\* child's primary objective is satisfied.
C23_RollupIsExact ==
  lastRequest # "" =>
    \A p \in Activities :
       (HasChildren(p) /\ ~activityTree[p].sequencingDefinition.rollupRules.defined) =>
          /\ IsComplete(activityStateInformation, p)
               <=> \A c \in Children(p) : IsComplete(activityStateInformation, c)
          /\ getObjectiveSatisfiedStatus(activityStateInformation, p, "")
               <=> \A c \in Children(p) :
                      getObjectiveSatisfiedStatus(activityStateInformation, c, "")

\* The position of identifier id among the items of the manifest.
ItemIndex(id) == CHOOSE i \in DOMAIN manifest.item : manifest.item[i].identifier = id

\* C24: in the tree the engine builds, every activity (the root included) has
\* isLeaf = true iff it has no children; the root has depth 0 and no parent,
\* every other activity has exactly one parent, which lists it among its
\* children and is one level above it, and children come in manifest item order.
C24_TreeShape ==
  thrown = NoError =>
    LET root == manifest.organizations[1].identifier
    IN /\ \A a \in Activities : activityTree[a].isLeaf <=> ~HasChildren(a)
       /\ activityTree[root].depth = 0
       /\ activityTree[root].parent = null
       /\ \A a \in Activities \ {root} :
            /\ { p \in Activities : a \in Children(p) } = { activityTree[a].parent }
            /\ activityTree[a].depth = activityTree[activityTree[a].parent].depth + 1
       /\ \A p \in Activities : \A c, d \in DOMAIN activityTree[p].children :
            c < d => ItemIndex(activityTree[p].children[c])
                       < ItemIndex(activityTree[p].children[d])

\* The value of the predicate a condition names, on the evaluated activity;
\* a name the engine does not know has the value FALSE.
PredicateValue(name, now) ==
  CASE name = "completed" ->
         /\ activityStateInformation[Id(1)].activityProgressStatus
         /\ activityStateInformation[Id(1)].activityCompletionStatus
    [] name = "attemptLimitExceeded" -> isAttemptLimitExceeded(Id(1))
    [] name = "timeLimitExceeded" -> isTimeLimitExceeded(activityStateInformation, Id(1))
    [] name = "outsideAvailableTimeRange" -> isOutsideAvailableTimeRange(Id(1), now)
    [] OTHER -> FALSE

\* The result of one condition: the predicate's value, negated exactly when
\* the operator is "not".
ConditionResult(condition, now) ==
  IF condition.operator = "not"
    THEN ~PredicateValue(condition.condition, now)
    ELSE PredicateValue(condition.condition, now)

\* C25: evaluateSequencingRule returns the conjunction of the rule's condition
\* results under "all" and their disjunction under "any"; each condition
\* result is the named predicate's value, negated exactly when the operator is
\* "not"; an unknown condition name counts as false before the operator; a
\* rule with no conditions fires under "all" and does not fire under "any".
C25_RuleIsCombinationOfConditions ==
  ruleCall = "evaluateSequencingRule" =>
    \E now \in ClockReadings :
      /\ givenRule.conditionCombination = "all" =>
           (ruleValue <=> \A i \in DOMAIN givenRule.ruleConditions :
                             ConditionResult(givenRule.ruleConditions[i], now))
      /\ givenRule.conditionCombination = "any" =>
           (ruleValue <=> \E i \in DOMAIN givenRule.ruleConditions :
                             ConditionResult(givenRule.ruleConditions[i], now))
      /\ givenRule.ruleConditions = << >> =>
           (ruleValue <=> givenRule.conditionCombination = "all")

\* An "any" rule that fires through the negation of an unknown condition, its
\* other condition being the same unknown name without negation.
C25_Witness ==
  /\ ruleCall = "evaluateSequencingRule"
  /\ givenRule.conditionCombination = "any"
  /\ givenRule.ruleConditions =
       << SCORMRuleCondition("mastered", "noOp"), SCORMRuleCondition("mastered", "not") >>
  /\ ruleValue

\* C26: the conditions "attemptLimitExceeded" and "timeLimitExceeded" evaluate
\* to false before the operator is applied, for every activity and every limit
\* configuration, a defined attemptLimit or activityAbsoluteDurationLimit
\* included.
C26_LimitConditionsNeverHold ==
  (/\ ruleCall = "evaluateRuleCondition"
   /\ givenRule.ruleConditions[1].condition \in {"attemptLimitExceeded", "timeLimitExceeded"})
    => (ruleValue <=> givenRule.ruleConditions[1].operator = "not")

\* C27: while there is no current activity, a resumeAll request returns the
\* result and leaves the state a start request would; no sequence of requests
\* sets activityIsSuspended on any activity, so resumeAll never returns through
\* the search for a suspended activity.
C27_ResumeAllIsStart ==
  thrown = NoError =>
    /\ \A a \in Activities : ~activityStateInformation[a].activityIsSuspended
    /\ currentActivity = null =>
         \A now \in ClockReadings :
            overallSequencingProcess("resumeAll", "", Engine, now)
              = overallSequencingProcess("start", "", Engine, now)

\* A resumeAll issued with no current activity, on a tree with items, has
\* returned what start returns there: nothing.
C27_Witness ==
  /\ lastRequest = "resumeAll"
  /\ lastFrom = null
  /\ lastResult = null
  /\ HasChildren(manifest.organizations[1].identifier)

\* What a continue request yields from engine state e when flow is permitted:
\* the current activity is terminated, the flow runs forward from it, and
\* what it identifies is delivered.
ContinueWithFlowPermitted(e, now) ==
  LET terminated == terminateCurrent([e EXCEPT !.endSession = FALSE], now)
  IN deliverIdentified(
       identifyActivity(
         [e |-> terminated,
          activity |-> flowSubprocess(terminated.currentActivity, FALSE, FALSE,
                                      terminated, now, {})]),
       now)

\* C28: where the current activity has a parent, an exit request identifies
\* and delivers exactly what a continue request delivers when flow is
\* permitted, whatever controlMode.flow is; an abandon request gives the
\* result and the resulting state of a continue request.
C28_ExitAndAbandonAreContinue ==
  thrown = NoError =>
    \A now \in ClockReadings :
      /\ (currentActivity # null /\ activityTree[currentActivity].parent # null) =>
           /\ overallSequencingProcess("exit", "", Engine, now)
                = ContinueWithFlowPermitted(Engine, now)
           /\ isContinueAllowed(currentActivity) =>
                overallSequencingProcess("exit", "", Engine, now)
                  = overallSequencingProcess("continue", "", Engine, now)
      /\ overallSequencingProcess("abandon", "", Engine, now)
           = overallSequencingProcess("continue", "", Engine, now)

\* An exit has delivered the next sibling of an activity whose control mode
\* forbids flow.
C28_Witness ==
  /\ lastRequest = "exit"
  /\ Returned
  /\ lastFrom # null
  /\ ~isContinueAllowed(lastFrom)
  /\ activityTree[lastResult].parent = activityTree[lastFrom].parent

\* C29: an activity whose activityIsActive flag is set is the current
\* activity; no other activity is ever active.
C29_OnlyCurrentIsActive ==
  \A a \in Activities :
     activityStateInformation[a].activityIsActive => a = currentActivity

\* A delivery from one activity to another: the new current activity is
\* active and the one departed from no longer is.
C29_Witness ==
  /\ Returned
  /\ lastFrom # null
  /\ lastFrom # lastResult
  /\ activityStateInformation[currentActivity].activityIsActive
  /\ ~activityStateInformation[lastFrom].activityIsActive

\* C30: once an activity has been delivered the current-activity pointer is
\* never cleared: after every later request (exitAll, abandonAll, an exit from
\* a top-level activity and requests that identify nothing included)
\* getCurrentActivity() still returns an identifier, so every later start or
\* resumeAll request returns null.
C30_CurrentNeverCleared ==
  [][currentActivity # null =>
       /\ currentActivity' # null
       /\ lastRequest' \in {"start", "resumeAll"} => lastResult' = null]_vars

\* A start or resumeAll made after a delivery has returned null, the current
\* activity being what it was.
C30_Witness ==
  /\ lastRequest \in {"start", "resumeAll"}
  /\ lastFrom # null
  /\ currentActivity = lastFrom
  /\ lastResult = null

\* The leaves at and below a, in manifest (pre-order) order.
RECURSIVE PreOrderLeaves(_)
PreOrderLeaves(a) ==
  IF ~HasChildren(a) THEN << a >>
  ELSE LET children == activityTree[a].children
           RECURSIVE Concat(_)
           Concat(i) == IF i > Len(children) THEN << >>
                        ELSE PreOrderLeaves(children[i]) \o Concat(i + 1)
       IN Concat(1)

\* The leaf after leaf a in pre-order, null after the last one.
NextLeaf(a) ==
  LET leaves == PreOrderLeaves(manifest.organizations[1].identifier)
      i == CHOOSE j \in DOMAIN leaves : leaves[j] = a
  IN IF i < Len(leaves) THEN leaves[i + 1] ELSE null

\* Every leaf is bound to a resource and visible, and no item has a
\* sequencing element: nothing restricts flow.
UnrestrictedTree ==
  /\ NoSequencingDefinitions
  /\ \A a \in Activities :
       (~HasChildren(a) /\ activityTree[a].parent # null) =>
          /\ activityTree[a].item.identifierref # ""
          /\ activityTree[a].item.isvisible

\* C31: in a tree where every leaf is deliverable and nothing restricts flow,
\* a continue request made on a leaf delivers the next leaf in manifest
\* (pre-order) order, also across cluster boundaries, and returns null only
\* when made on the last leaf: repeated from the first leaf it delivers every
\* leaf exactly once.
C31_ContinueWalksLeavesInOrder ==
  (/\ UnrestrictedTree
   /\ lastRequest = "continue"
   /\ lastFrom # null) => lastResult = NextLeaf(lastFrom)

\* The call being made succeeds: it returns "true", or is an LMSGetValue that
\* returns a stored value.
SuccessfulCall ==
  \/ apiCall'.method \in {"LMSInitialize", "LMSFinish", "LMSSetValue", "LMSCommit"}
       /\ apiCall'.result = "true"
  \/ /\ apiCall'.method = "LMSGetValue"
     /\ api.initialized
     /\ Stored(api.dataModel, apiCall'.element) # undefined

\* C32: LMSInitialize returns "true" exactly when the API is not initialized
\* and LMSFinish exactly when it is; while it is not initialized, LMSGetValue,
\* LMSSetValue and LMSCommit return "" or "false", leave the data model as it
\* is and set a last error other than "0"; every successful call leaves the
\* last error at "0".
C32_InitializationBookkeeping ==
  [][/\ apiCall'.method = "LMSInitialize" =>
          (apiCall'.result = "true" <=> ~api.initialized)
     /\ apiCall'.method = "LMSFinish" =>
          (apiCall'.result = "true" <=> api.initialized)
     /\ (apiCall'.method \in {"LMSGetValue", "LMSSetValue", "LMSCommit"}
           /\ ~api.initialized) =>
          /\ apiCall'.result \in {"", "false"}
          /\ api'.dataModel = api.dataModel
          /\ api'.errorCode # "0"
     /\ SuccessfulCall => api'.errorCode = "0"]_vars

\* An LMSSetValue with a valid element and value has failed on an API that
\* holds data and has been finished.
C32_Witness ==
  /\ apiCall.method = "LMSSetValue"
  /\ apiCall.result = "false"
  /\ isValidElement(api.version, apiCall.element)
  /\ isValidValue(api.version, apiCall.element, apiCall.value)
  /\ ~api.initialized
  /\ api.errorCode = "102"
  /\ DOMAIN api.dataModel # {}

\* C33: once LMSSetValue(e, v) has returned "true", LMSGetValue(e) made while
\* the API is initialized returns v and leaves the last error at "0", until a
\* later successful LMSSetValue or a setDataModel overwrites e, an LMSFinish
\* and LMSInitialize in between notwithstanding; an LMSSetValue that returns
\* "false" leaves every stored element as it is.
C33_SetThenGet ==
  [][/\ (/\ apiCall'.method = "LMSGetValue"
         /\ api.initialized
         /\ Stored(written, apiCall'.element) # undefined) =>
          /\ apiCall'.result = Stored(written, apiCall'.element)
          /\ api'.errorCode = "0"
     /\ (apiCall'.method = "LMSSetValue" /\ apiCall'.result = "false") =>
          api'.dataModel = api.dataModel]_vars

\* An LMSGetValue has returned the session time stored by an earlier
\* LMSSetValue, another element having been stored as well.
C33_Witness ==
  /\ apiCall.method = "LMSGetValue"
  /\ apiCall.element = cmi(<< "core", ".", "session_", "time" >>)
  /\ apiCall.result = "PT1H"
  /\ Stored(written, apiCall.element) = "PT1H"
  /\ api.errorCode = "0"
  /\ Cardinality(DOMAIN api.dataModel) > 1

\* The step being taken delivers, to the registered listener, a response
\* that carries the id of a pending request.
ResponseToPending ==
  /\ lastEvent'.type = "SCORM_API_RESPONSE"
  /\ handler.messageHandler
  /\ lastEvent'.requestId \in handler.pendingRequests

\* C34: under every interleaving of messages and timer expiries, the resolve
\* function of each API call is called at most once: while the listener is
\* registered, with
\* the result of the first SCORM_API_RESPONSE that carries its requestId, if
\* that arrives before the timer expires, and with "false" by the timer
\* otherwise; a message whose requestId is unknown, was answered before or has
\* timed out resolves nothing and changes no state; a resolved request is no
\* longer in pendingRequests.
C34_ResolvedOnceByResponseOrTimeout ==
  [][/\ \A id \in DOMAIN promises' :
          /\ Len(promises'[id]) <= 1
          /\ Len(promises'[id]) = 1 => id \notin handler'.pendingRequests
     /\ \A id \in DOMAIN promises :
          promises'[id] # promises[id] =>
            /\ lastEvent'.requestId = id
            /\ id \in handler.pendingRequests
            /\ \/ ResponseToPending /\ promises'[id] = << lastEvent'.result >>
               \/ lastEvent'.type = "timeout" /\ promises'[id] = << "false" >>
     /\ (ResponseToPending /\ lastEvent' # lastEvent) =>
          promises'[lastEvent'.requestId] = << lastEvent'.result >>
     /\ (lastEvent'.type \in {"SCORM_API_RESPONSE", "SCORM_API_CALL"}
           /\ lastEvent'.requestId \notin handler.pendingRequests) =>
          UNCHANGED << handler, timers, promises >>]_vars

\* Of two requests one was resolved by its response and the other by its
\* timer, and a later response to the first has been ignored.
C34_Witness ==
  /\ lastEvent.type = "SCORM_API_RESPONSE"
  /\ lastEvent.requestId \in DOMAIN promises
  /\ promises[lastEvent.requestId] = << "true" >>
  /\ lastEvent.result = ""
  /\ \E id \in DOMAIN promises : promises[id] = << "false" >> /\ id \notin timers

\* C35: the promise of every API call is eventually resolved, with the
\* result of its response or with "false" once its timer expires, also when
\* the call is pending at the time destroy() is invoked.
C35_EveryPromiseResolves ==
  \A id \in RequestIds :
     (id \in DOMAIN promises) ~> (id \in DOMAIN promises /\ Len(promises[id]) > 0)

\* C36: getNextActivityInTree and getPreviousActivityInTree are inverse steps
\* of the pre-order walk: where getNextActivityInTree(a) returns an activity
\* n, getPreviousActivityInTree(n) is a; and getNextActivityInTree iterated
\* from the root returns every activity of the tree exactly once before it
\* returns null.
C36_WalkStepsAreInverse ==
  /\ (walkCall.method = "getNextActivityInTree" /\ walkCall.result # null) =>
        getPreviousActivityInTree(walkCall.result) = walkCall.activity
  /\ \A i, j \in DOMAIN visited : visited[i] = visited[j] => i = j
  /\ (visited # << >> /\ getNextActivityInTree(visited[Len(visited)]) = null) =>
        Range(visited) = Activities

\* The iteration has covered a tree of at least four activities, and a call
\* on the last leaf of a cluster has returned the next sibling of an ancestor.
C36_Witness ==
  /\ Len(visited) = Cardinality(Activities)
  /\ Len(visited) >= 4
  /\ walkCall.method = "getNextActivityInTree"
  /\ walkCall.result # null
  /\ activityTree[walkCall.result].depth < activityTree[walkCall.activity].depth

====
